---- MODULE Spec2Model ----
(***************************************************************************)
(* Qscape routing engine: the shared graph/cost model, the exact solvers   *)
(* (dijkstra, astar, dynamic_programming), the annealing solver and the    *)
(* constrained solve with its validator.                                   *)
(*                                                                         *)
(* Numbers are integers.  float("inf") is the number Inf with the float    *)
(* rules for it (Plus).  A Euclidean distance sqrt(r) is kept as its       *)
(* radicand r and compared exactly (FLess), which is what the float        *)
(* comparison gives for the small integers used here.                      *)
(***************************************************************************)
EXTENDS Integers, Sequences, FiniteSets, TLC

\* graph: graph_data; req: the call made on it; res: what the call returned or raised;
\* run: the annealing loop in progress, between two draws of the random module
VARIABLES graph, req, res, run

vars == <<graph, req, res, run>>

(***************************************************************************)
(* Values                                                                  *)
(***************************************************************************)
Inf == 1000000

NoParent == -1

Plus(a, b) == IF a = Inf \/ b = Inf THEN Inf ELSE a + b

RemoveAt(s, i) == SubSeq(s, 1, i - 1) \o SubSeq(s, i + 1, Len(s))

RECURSIVE Reverse(_)
Reverse(s) == IF s = <<>> THEN <<>> ELSE Append(Reverse(Tail(s)), Head(s))

(***************************************************************************)
(* Graph data: graph.nodes and graph.edges are the lists of graph_data.    *)
(***************************************************************************)
NodeIds(g) == {g.nodes[i].id : i \in DOMAIN g.nodes}

\* nodes = {node["id"]: node for node in graph_data["nodes"]}: the last node of an id wins
NodesById(g) ==
    [id \in NodeIds(g) |->
        g.nodes[CHOOSE i \in DOMAIN g.nodes :
                    /\ g.nodes[i].id = id
                    /\ \A j \in DOMAIN g.nodes : g.nodes[j].id = id => j <= i]]

\* faulty variant of EndpointBlocked: reads the hazard flag instead of blocked
EndpointBlockedReadsHazard(g, id) == id \in NodeIds(g) /\ NodesById(g)[id].hazard

\* nodes.get(id, {}).get("blocked")
EndpointBlocked(g, id) == id \in NodeIds(g) /\ NodesById(g)[id].blocked

(***************************************************************************)
(* objective.py                                                            *)
(***************************************************************************)
\* risk_level, hazard_probability and congestion_score are kept even, so the
\* halving of the two endpoints' sum is exact
calculate_edge_cost(edge, from_node, to_node, weights) ==
    weights.distance_weight * edge.cost
    + weights.risk_weight * ((from_node.risk_level + to_node.risk_level) \div 2)
    + weights.hazard_weight
        * ((from_node.hazard_probability + to_node.hazard_probability) \div 2)
    + weights.congestion_weight
        * ((from_node.congestion_score + to_node.congestion_score) \div 2)

(***************************************************************************)
(* The adjacency of the exact solvers                                      *)
(***************************************************************************)
\* faulty variant of EdgeSkipped: does not look at the node the edge leads to
EdgeSkippedFromSideOnly(g, edge, avoid_hazards) ==
    LET nodes == NodesById(g)
        from_node == nodes[edge.from]
    IN  \/ edge.blocked
        \/ from_node.blocked
        \/ avoid_hazards /\ (from_node.hazard \/ edge.hazard)

\* the three `continue` tests applied to an edge
EdgeSkipped(g, edge, avoid_hazards) ==
    LET nodes == NodesById(g)
        from_node == nodes[edge.from]
        to_node == nodes[edge.to]
    IN  \/ edge.blocked
        \/ from_node.blocked \/ to_node.blocked
        \/ avoid_hazards /\ (from_node.hazard \/ to_node.hazard \/ edge.hazard)

\* the (from, to, cost) triples appended to the adjacency, in edge order
RECURSIVE WeightedEdges(_, _, _, _)
WeightedEdges(g, edges, avoid_hazards, weights) ==
    IF edges = <<>> THEN <<>>
    ELSE LET edge == Head(edges)
             rest == WeightedEdges(g, Tail(edges), avoid_hazards, weights)
         IN  IF EdgeSkipped(g, edge, avoid_hazards) THEN rest
             ELSE <<[from |-> edge.from, to |-> edge.to,
                     cost |-> calculate_edge_cost(edge, NodesById(g)[edge.from],
                                                  NodesById(g)[edge.to], weights)]>>
                  \o rest

RECURSIVE NeighborList(_, _)
NeighborList(triples, from_id) ==
    IF triples = <<>> THEN <<>>
    ELSE IF Head(triples).from = from_id
         THEN <<[to |-> Head(triples).to, cost |-> Head(triples).cost]>>
              \o NeighborList(Tail(triples), from_id)
         ELSE NeighborList(Tail(triples), from_id)

\* dijkstra.build_adjacency: every node id is a key
build_adjacency(g, avoid_hazards, weights) ==
    LET triples == WeightedEdges(g, g.edges, avoid_hazards, weights)
    IN  [node_id \in NodeIds(g) |-> NeighborList(triples, node_id)]

\* the keys of the adjacency astar and dynamic_programming build inline, in the
\* order the dict received them (first edge of each from_id)
RECURSIVE KeyOrder(_, _)
KeyOrder(triples, seen) ==
    IF triples = <<>> THEN <<>>
    ELSE IF Head(triples).from \in seen THEN KeyOrder(Tail(triples), seen)
         ELSE <<Head(triples).from>>
              \o KeyOrder(Tail(triples), seen \cup {Head(triples).from})

\* the inline adjacency: only the from_ids of kept edges are keys
InlineAdjacency(g, avoid_hazards, weights) ==
    LET triples == WeightedEdges(g, g.edges, avoid_hazards, weights)
        keys == KeyOrder(triples, {})
    IN  [keys |-> keys,
         lists |-> [k \in {keys[i] : i \in DOMAIN keys} |-> NeighborList(triples, k)]]

\* adjacency.get(current, [])
AdjacencyGet(adjacency, node_id) ==
    IF node_id \in DOMAIN adjacency.lists THEN adjacency.lists[node_id] ELSE <<>>

\* path = []; while current is not None: path.append(current); current = parent[current];
\* path.reverse()
RECURSIVE BackTrack(_, _)
BackTrack(parent, current) ==
    IF current = NoParent THEN <<>>
    ELSE <<current>> \o BackTrack(parent, parent[current])

ReconstructPath(parent, end) == Reverse(BackTrack(parent, end))

(***************************************************************************)
(* dijkstra.py                                                             *)
(* pq holds the (distance, node) tuples in the order they were pushed;     *)
(* heappop takes the least tuple.  pops logs, for each heappop, the queue  *)
(* before it and the position taken.                                       *)
(***************************************************************************)
\* a variant of DijkstraEntryLess that compares the distances only
DijkstraEntryLessByDistance(a, b) == a[1] < b[1]

\* Python's order on the tuples (new_dist, neighbor)
DijkstraEntryLess(a, b) == a[1] < b[1] \/ (a[1] = b[1] /\ a[2] < b[2])

\* heappop: the position of the least tuple (equal tuples are interchangeable)
DijkstraPopIndex(pq) ==
    CHOOSE i \in DOMAIN pq :
        /\ \A j \in DOMAIN pq : ~DijkstraEntryLess(pq[j], pq[i])
        /\ \A j \in 1..(i - 1) : DijkstraEntryLess(pq[i], pq[j])

\* faulty variant of DijkstraRelaxEdge: keeps the first distance found for a node
DijkstraRelaxEdgeFirstFound(st, current, current_dist, nb) ==
    LET new_dist == Plus(current_dist, nb.cost)
    IN  IF st.distances[nb.to] = Inf /\ new_dist < Inf
        THEN [st EXCEPT !.distances[nb.to] = new_dist,
                        !.parent[nb.to] = current,
                        !.pq = Append(@, <<new_dist, nb.to>>)]
        ELSE st

\* one pass of the body of `for neighbor, cost in adjacency[current]`
DijkstraRelaxEdge(st, current, current_dist, nb) ==
    LET new_dist == Plus(current_dist, nb.cost)
    IN  IF new_dist < st.distances[nb.to]
        THEN [st EXCEPT !.distances[nb.to] = new_dist,
                        !.parent[nb.to] = current,
                        !.pq = Append(@, <<new_dist, nb.to>>)]
        ELSE st

RECURSIVE DijkstraRelaxAll(_, _, _, _)
DijkstraRelaxAll(st, current, current_dist, nbs) ==
    IF nbs = <<>> THEN st
    ELSE DijkstraRelaxAll(DijkstraRelaxEdge(st, current, current_dist, Head(nbs)),
                          current, current_dist, Tail(nbs))

\* the `while pq` loop
RECURSIVE DijkstraLoop(_, _, _)
DijkstraLoop(st, adjacency, end) ==
    IF st.pq = <<>> THEN st
    ELSE LET i == DijkstraPopIndex(st.pq)
             current_dist == st.pq[i][1]
             current == st.pq[i][2]
             popped == [st EXCEPT !.pq = RemoveAt(@, i),
                                  !.evaluated_states = @ + 1,
                                  !.pops = Append(@, [queue |-> st.pq, taken |-> i])]
         IN  IF current_dist > st.distances[current]
             THEN DijkstraLoop(popped, adjacency, end)
             ELSE IF current = end THEN popped
             ELSE DijkstraLoop(
                      DijkstraRelaxAll(popped, current, current_dist, adjacency[current]),
                      adjacency, end)

dijkstra(start, end, g, avoid_hazards, weights) ==
    IF EndpointBlocked(g, start) \/ EndpointBlocked(g, end)
    THEN [path |-> <<start, end>>, cost |-> Inf, evaluated_states |-> 0,
          pops |-> <<>>, built |-> FALSE]
    ELSE LET adjacency == build_adjacency(g, avoid_hazards, weights)
             st0 == [distances |-> [n \in NodeIds(g) |-> IF n = start THEN 0 ELSE Inf],
                     parent |-> [n \in NodeIds(g) |-> NoParent],
                     pq |-> <<<<0, start>>>>,
                     evaluated_states |-> 0,
                     pops |-> <<>>]
             st == DijkstraLoop(st0, adjacency, end)
         IN  [path |-> ReconstructPath(st.parent, end),
              cost |-> st.distances[end],
              evaluated_states |-> st.evaluated_states,
              pops |-> st.pops, built |-> TRUE]

(***************************************************************************)
(* astar.py                                                                *)
(* An f_score g + sqrt(r) is the record [g, r].  open_set holds the        *)
(* entries (f_score, counter, node) in the order they were pushed.         *)
(***************************************************************************)
\* g1 + sqrt(r1) < g2 + sqrt(r2), decided exactly on the integers
FLess(f1, f2) ==
    LET k == f2.g - f1.g
        m == f1.r - k * k - f2.r
        n == f2.r - k * k - f1.r
    IN  IF k = 0 THEN f1.r < f2.r
        ELSE IF k > 0 THEN m < 0 \/ m * m < 4 * k * k * f2.r
        ELSE n > 0 /\ n * n > 4 * k * k * f1.r

\* a variant of heuristic that returns 0 for every node
HeuristicZero(g, node_id, end) ==
    LET nodes == NodesById(g)
        x2 == IF end \in NodeIds(g) THEN nodes[end].x ELSE 0
        y2 == IF end \in NodeIds(g) THEN nodes[end].y ELSE 0
    IN  (x2 - x2) * (x2 - x2) + (y2 - y2) * (y2 - y2)

\* the radicand of math.sqrt((x2 - x1) ** 2 + (y2 - y1) ** 2)
heuristic(g, node_id, end) ==
    LET nodes == NodesById(g)
        x1 == IF node_id \in NodeIds(g) THEN nodes[node_id].x ELSE 0
        y1 == IF node_id \in NodeIds(g) THEN nodes[node_id].y ELSE 0
        x2 == IF end \in NodeIds(g) THEN nodes[end].x ELSE 0
        y2 == IF end \in NodeIds(g) THEN nodes[end].y ELSE 0
    IN  (x2 - x1) * (x2 - x1) + (y2 - y1) * (y2 - y1)

\* f_score = tentative_g + heuristic(neighbor)
FScore(g, tentative_g, neighbor, end) ==
    [g |-> tentative_g, r |-> heuristic(g, neighbor, end)]

\* Python's order on the tuples (f_score, counter, node_id)
AstarEntryLess(a, b) ==
    \/ FLess(a.f, b.f)
    \/ ~FLess(b.f, a.f) /\ a.counter < b.counter
    \/ ~FLess(b.f, a.f) /\ a.counter = b.counter /\ a.node < b.node

\* heappop: the position of the least tuple
AstarPopIndex(open_set) ==
    CHOOSE i \in DOMAIN open_set :
        /\ \A j \in DOMAIN open_set : ~AstarEntryLess(open_set[j], open_set[i])
        /\ \A j \in 1..(i - 1) : AstarEntryLess(open_set[i], open_set[j])

\* faulty variant of AstarRelaxEdge: keeps the first parent recorded for a node
AstarRelaxEdgeKeepsParent(st, g, current, end, nb) ==
    IF nb.to \in st.closed_set THEN st
    ELSE LET tentative_g == Plus(st.g_score[current], nb.cost)
         IN  IF tentative_g < st.g_score[nb.to]
             THEN [st EXCEPT !.g_score[nb.to] = tentative_g,
                             !.parent[nb.to] = IF @ = NoParent THEN current ELSE @,
                             !.open_set = Append(@, [f |-> FScore(g, tentative_g, nb.to, end),
                                                     counter |-> st.counter,
                                                     node |-> nb.to]),
                             !.counter = @ + 1]
             ELSE st

\* faulty variant of AstarRelaxEdge: overwrites g_score without comparing
AstarRelaxEdgeUnguarded(st, g, current, end, nb) ==
    IF nb.to \in st.closed_set THEN st
    ELSE LET tentative_g == Plus(st.g_score[current], nb.cost)
         IN  [st EXCEPT !.g_score[nb.to] = tentative_g,
                        !.parent[nb.to] = current,
                        !.open_set = Append(@, [f |-> FScore(g, tentative_g, nb.to, end),
                                                counter |-> st.counter,
                                                node |-> nb.to]),
                        !.counter = @ + 1]

\* one pass of the body of `for neighbor, cost in adjacency.get(current, [])`
AstarRelaxEdge(st, g, current, end, nb) ==
    IF nb.to \in st.closed_set THEN st
    ELSE LET tentative_g == Plus(st.g_score[current], nb.cost)
         IN  IF tentative_g < st.g_score[nb.to]
             THEN [st EXCEPT !.g_score[nb.to] = tentative_g,
                             !.parent[nb.to] = current,
                             !.open_set = Append(@, [f |-> FScore(g, tentative_g, nb.to, end),
                                                     counter |-> st.counter,
                                                     node |-> nb.to]),
                             !.counter = @ + 1]
             ELSE st

RECURSIVE AstarRelaxAll(_, _, _, _, _)
AstarRelaxAll(st, g, current, end, nbs) ==
    IF nbs = <<>> THEN st
    ELSE AstarRelaxAll(AstarRelaxEdge(st, g, current, end, Head(nbs)),
                       g, current, end, Tail(nbs))

\* the `while open_set` loop; found tells the return inside the loop from its exhaustion
RECURSIVE AstarLoop(_, _, _, _)
AstarLoop(st, g, adjacency, end) ==
    IF st.open_set = <<>> THEN st
    ELSE LET i == AstarPopIndex(st.open_set)
             current == st.open_set[i].node
             popped == [st EXCEPT !.open_set = RemoveAt(@, i),
                                  !.evaluated_states = @ + 1,
                                  !.pops = Append(@, [queue |-> st.open_set, taken |-> i])]
         IN  IF current \in st.closed_set
             THEN AstarLoop(popped, g, adjacency, end)
             ELSE IF current = end THEN [popped EXCEPT !.found = TRUE]
             ELSE AstarLoop(
                      AstarRelaxAll([popped EXCEPT !.closed_set = @ \cup {current}],
                                    g, current, end, AdjacencyGet(adjacency, current)),
                      g, adjacency, end)

astar(start, end, g, avoid_hazards, weights) ==
    IF EndpointBlocked(g, start) \/ EndpointBlocked(g, end)
    THEN [path |-> <<start, end>>, cost |-> Inf, evaluated_states |-> 0,
          pops |-> <<>>, built |-> FALSE]
    ELSE LET adjacency == InlineAdjacency(g, avoid_hazards, weights)
             st0 == [g_score |-> [n \in NodeIds(g) |-> IF n = start THEN 0 ELSE Inf],
                     parent |-> [n \in NodeIds(g) |-> NoParent],
                     open_set |-> <<[f |-> [g |-> 0, r |-> heuristic(g, start, end)],
                                     counter |-> 0, node |-> start]>>,
                     counter |-> 1,
                     closed_set |-> {},
                     evaluated_states |-> 0,
                     pops |-> <<>>,
                     found |-> FALSE]
             st == AstarLoop(st0, g, adjacency, end)
         IN  IF st.found
             THEN [path |-> ReconstructPath(st.parent, end),
                   cost |-> st.g_score[end],
                   evaluated_states |-> st.evaluated_states,
                   pops |-> st.pops, built |-> TRUE]
             ELSE [path |-> <<start, end>>, cost |-> Inf,
                   evaluated_states |-> st.evaluated_states,
                   pops |-> st.pops, built |-> TRUE]

(***************************************************************************)
(* dynamic_programming.py                                                  *)
(* pops logs the (from_id, to_id) of each relaxation attempt.              *)
(***************************************************************************)
\* the body of `for to_id, cost in adjacency[from_id]`
DpRelaxEdge(st, from_id, nb) ==
    LET counted == [st EXCEPT !.evaluated_states = @ + 1,
                              !.pops = Append(@, <<from_id, nb.to>>)]
    IN  IF /\ st.distances[from_id] # Inf
           /\ Plus(st.distances[from_id], nb.cost) < st.distances[nb.to]
        THEN [counted EXCEPT !.distances[nb.to] = Plus(st.distances[from_id], nb.cost),
                             !.parent[nb.to] = from_id]
        ELSE counted

RECURSIVE DpRelaxList(_, _, _)
DpRelaxList(st, from_id, nbs) ==
    IF nbs = <<>> THEN st
    ELSE DpRelaxList(DpRelaxEdge(st, from_id, Head(nbs)), from_id, Tail(nbs))

\* `for from_id in adjacency`: the keys in dict order
RECURSIVE DpPass(_, _, _)
DpPass(st, adjacency, keys) ==
    IF keys = <<>> THEN st
    ELSE DpPass(DpRelaxList(st, Head(keys), adjacency.lists[Head(keys)]),
                adjacency, Tail(keys))

\* faulty variant of DpRoundCount: one relaxation round too few
DpRoundCountShort(num_nodes) == num_nodes - 2

\* `for _ in range(num_nodes - 1)`
DpRoundCount(num_nodes) == num_nodes - 1

RECURSIVE DpRounds(_, _, _)
DpRounds(st, adjacency, rounds) ==
    IF rounds <= 0 THEN st
    ELSE DpRounds(DpPass(st, adjacency, adjacency.keys), adjacency, rounds - 1)

dynamic_programming(start, end, g, avoid_hazards, weights) ==
    IF EndpointBlocked(g, start) \/ EndpointBlocked(g, end)
    THEN [path |-> <<start, end>>, cost |-> Inf, evaluated_states |-> 0,
          pops |-> <<>>, built |-> FALSE]
    ELSE LET adjacency == InlineAdjacency(g, avoid_hazards, weights)
             st0 == [distances |-> [n \in NodeIds(g) |-> IF n = start THEN 0 ELSE Inf],
                     parent |-> [n \in NodeIds(g) |-> NoParent],
                     evaluated_states |-> 0,
                     pops |-> <<>>]
             st == DpRounds(st0, adjacency, DpRoundCount(Cardinality(NodeIds(g))))
             path == ReconstructPath(st.parent, end)
         IN  IF path[1] # start
             THEN [path |-> <<start, end>>, cost |-> Inf,
                   evaluated_states |-> st.evaluated_states,
                   pops |-> st.pops, built |-> TRUE]
             ELSE [path |-> path, cost |-> st.distances[end],
                   evaluated_states |-> st.evaluated_states,
                   pops |-> st.pops, built |-> TRUE]

(***************************************************************************)
(* quantum.py: QuantumSolver._quantum_annealing_simulation                 *)
(* random.choice, random.randint and random.random are choices among the   *)
(* values they can return.  None is the empty path.                        *)
(***************************************************************************)
num_iterations == 100

\* `len(new_path) < 10`
InsertBelowLen == 10

\* the two `continue` tests of the annealing adjacency (the endpoints' blocked flags
\* are not read)
AnnealEdgeSkipped(g, edge, avoid_hazards) ==
    LET nodes == NodesById(g)
        from_node == nodes[edge.from]
        to_node == nodes[edge.to]
    IN  \/ edge.blocked
        \/ avoid_hazards /\ (from_node.hazard \/ to_node.hazard \/ edge.hazard)

\* the (from, to, edge["cost"]) triples appended to the adjacency, in edge order
RECURSIVE RawEdges(_, _, _)
RawEdges(g, edges, avoid_hazards) ==
    IF edges = <<>> THEN <<>>
    ELSE LET edge == Head(edges)
             rest == RawEdges(g, Tail(edges), avoid_hazards)
         IN  IF AnnealEdgeSkipped(g, edge, avoid_hazards) THEN rest
             ELSE <<[from |-> edge.from, to |-> edge.to, cost |-> edge.cost]>> \o rest

\* adjacency = {node_id: [] for node_id in nodes} filled from the kept edges
AnnealAdjacency(g, avoid_hazards) ==
    LET triples == RawEdges(g, g.edges, avoid_hazards)
    IN  [node_id \in NodeIds(g) |-> NeighborList(triples, node_id)]

\* the inner loop of path_cost: the cost of the first neighbor entry that is `to`
RECURSIVE FirstCost(_, _)
FirstCost(nbs, to) ==
    IF nbs = <<>> THEN Inf
    ELSE IF Head(nbs).to = to THEN Head(nbs).cost
         ELSE FirstCost(Tail(nbs), to)

RECURSIVE path_cost(_, _)
path_cost(adjacency, path) ==
    IF Len(path) <= 1 THEN 0
    ELSE LET cost == FirstCost(adjacency[path[1]], path[2])
         IN  IF cost = Inf THEN Inf
             ELSE Plus(cost, path_cost(adjacency, Tail(path)))

\* `for neighbor, _ in adjacency[current]` of the breadth-first searches
RECURSIVE BfsExpand(_, _, _)
BfsExpand(st, path, nbs) ==
    IF nbs = <<>> THEN st
    ELSE IF Head(nbs).to \in st.visited THEN BfsExpand(st, path, Tail(nbs))
         ELSE BfsExpand([queue |-> Append(st.queue, Append(path, Head(nbs).to)),
                         visited |-> st.visited \cup {Head(nbs).to}],
                        path, Tail(nbs))

RECURSIVE BfsLoop(_, _, _)
BfsLoop(st, adjacency, end_id) ==
    IF st.queue = <<>> THEN <<>>
    ELSE LET path == Head(st.queue)
             current == path[Len(path)]
         IN  IF current = end_id THEN path
             ELSE BfsLoop(BfsExpand([st EXCEPT !.queue = Tail(@)], path,
                                    adjacency[current]),
                          adjacency, end_id)

\* a variant of bfs_initial_path that returns [start_id] when the queue runs empty
BfsInitialPathStartOnly(adjacency, start_id, end_id) ==
    LET path == BfsLoop([queue |-> <<<<start_id>>>>, visited |-> {start_id}],
                        adjacency, end_id)
    IN  IF path = <<>> THEN <<start_id>> ELSE path

bfs_initial_path(adjacency, start_id, end_id) ==
    BfsLoop([queue |-> <<<<start_id>>>>, visited |-> {start_id}], adjacency, end_id)

\* list.insert(pos, node), pos counted from 0
InsertAt(path, pos, node) ==
    SubSeq(path, 1, pos) \o <<node>> \o SubSeq(path, pos + 1, Len(path))

\* new_path[pos1], new_path[pos2] = new_path[pos2], new_path[pos1], counted from 0
SwapAt(path, pos1, pos2) ==
    [path EXCEPT ![pos1 + 1] = path[pos2 + 1], ![pos2 + 1] = path[pos1 + 1]]

\* _generate_neighbor_path: the paths the chosen operation can give; randint(1, 0)
\* raises ValueError
generate_neighbor_path(path, possible_nodes, operation) ==
    IF operation = "insert" /\ Len(path) < InsertBelowLen
    THEN IF Len(path) - 1 < 1 THEN {[raised |-> "ValueError", path |-> path]}
         ELSE IF possible_nodes = {} THEN {[raised |-> "none", path |-> path]}
         ELSE {[raised |-> "none", path |-> InsertAt(path, insert_pos, new_node)] :
                   insert_pos \in 1..(Len(path) - 1), new_node \in possible_nodes}
    ELSE IF operation = "remove" /\ Len(path) > 2
    THEN {[raised |-> "none", path |-> RemoveAt(path, remove_pos + 1)] :
              remove_pos \in 1..(Len(path) - 2)}
    ELSE IF operation = "swap" /\ Len(path) > 2
    THEN {[raised |-> "none", path |-> SwapAt(path, pos1, pos2)] :
              pos1 \in 1..(Len(path) - 2), pos2 \in 1..(Len(path) - 2)}
    ELSE {[raised |-> "none", path |-> path]}

\* The greatest integer delta_e for which np.exp(-delta_e / temperature) is above 0 in
\* double precision, after 0, 1, 2, ... multiplications of temperature 1.0 by
\* cooling_rate 0.95.
ExpPositiveUpTo ==
    <<745, 707, 672, 638, 606, 576, 547, 520, 494, 469, 446, 423, 402, 382, 363, 345,
      327, 311, 295, 281, 267, 253, 241, 229, 217, 206, 196, 186, 177, 168, 159, 151,
      144, 137, 130, 123, 117, 111, 106, 100, 95, 90, 86, 82, 77, 74, 70, 66, 63, 60,
      57, 54, 51, 49, 46, 44, 42, 40, 38, 36, 34, 32, 30, 29, 27, 26, 25, 23, 22, 21,
      20, 19, 18, 17, 16, 15, 15, 14, 13, 12, 12, 11, 11, 10, 10, 9, 9, 8, 8, 7, 7, 6,
      6, 6, 6, 5, 5, 5, 4, 4, 4>>

\* the values `delta_e < 0 or random.random() < np.exp(-delta_e / temperature)` can
\* take: random() is in [0, 1), 0.0 included, and exp(0) is 1.0
AcceptOutcomes(delta_e, cooled) ==
    IF delta_e <= 0 THEN {TRUE}
    ELSE IF delta_e <= ExpPositiveUpTo[cooled + 1] THEN {TRUE, FALSE}
    ELSE {FALSE}

\* the loop variables as the loop is entered; an empty initial_path makes the solver
\* return before it
AnnealEnter(start, end, g, avoid_hazards) ==
    LET adjacency == AnnealAdjacency(g, avoid_hazards)
        initial_path == bfs_initial_path(adjacency, start, end)
    IN  [initial_path |-> initial_path,
         current_path |-> initial_path,
         current_cost |-> IF initial_path = <<>> THEN Inf
                          ELSE path_cost(adjacency, initial_path),
         best_path |-> <<>>, best_cost |-> Inf,
         iteration |-> 0, cooled |-> 0]

\* one pass of the body of `for _ in range(num_iterations)` with the candidate drawn
\* and the value of the acceptance test; cooled counts the passes that reached
\* `temperature *= cooling_rate`
AnnealIterate(st, adjacency, candidate_path, accept) ==
    LET candidate_cost == path_cost(adjacency, candidate_path)
    IN  IF candidate_cost = Inf THEN [st EXCEPT !.iteration = @ + 1]
        ELSE LET current_path == IF accept THEN candidate_path ELSE st.current_path
                 current_cost == IF accept THEN candidate_cost ELSE st.current_cost
                 improved == current_cost < st.best_cost
             IN  [st EXCEPT !.current_path = current_path,
                            !.current_cost = current_cost,
                            !.best_path = IF improved THEN current_path ELSE @,
                            !.best_cost = IF improved THEN current_cost ELSE @,
                            !.cooled = @ + 1,
                            !.iteration = @ + 1]

\* the two returns after the loop
AnnealResult(st, adjacency) ==
    IF st.best_cost = Inf
    THEN [path |-> st.initial_path, cost |-> path_cost(adjacency, st.initial_path)]
    ELSE [path |-> IF st.best_path # <<>> THEN st.best_path ELSE st.initial_path,
          cost |-> st.best_cost]

(***************************************************************************)
(* constraints.py: ConstraintValidator                                     *)
(***************************************************************************)
\* a sum that counts a node once however often the path visits it
RECURSIVE TotalPopulationDistinct(_, _)
TotalPopulationDistinct(nodes, path) ==
    IF path = <<>> THEN 0
    ELSE (IF \E i \in DOMAIN Tail(path) : Tail(path)[i] = Head(path) THEN 0
          ELSE nodes[Head(path)].population)
         + TotalPopulationDistinct(nodes, Tail(path))

RECURSIVE TotalPopulation(_, _)
TotalPopulation(nodes, path) ==
    IF path = <<>> THEN 0
    ELSE nodes[Head(path)].population + TotalPopulation(nodes, Tail(path))

\* _find_edge and _find_edge_data: the first edge from from_id to to_id, blocked or
\* not, as a one-element sequence; None is the empty sequence
find_edge(g, from_id, to_id) ==
    LET hits == {i \in DOMAIN g.edges :
                    g.edges[i].from = from_id /\ g.edges[i].to = to_id}
    IN  IF hits = {} THEN <<>>
        ELSE <<g.edges[CHOOSE i \in hits : \A j \in hits : i <= j]>>

\* a lookup that never reads the table
TimeWindowAlwaysDefault(zone_metadata, zone) == [min |-> 0, max |-> 999]

\* zone_meta.get("time_window", {"min": 0, "max": 999}) of zone_metadata.get(zone, {})
TimeWindow(zone_metadata, zone) ==
    IF zone \in DOMAIN zone_metadata THEN zone_metadata[zone].time_window
    ELSE [min |-> 0, max |-> 999]

\* `for i, node_id in enumerate(path)` from position i on
RECURSIVE TimeWindowPass(_, _, _, _, _, _)
TimeWindowPass(g, zone_metadata, path, i, current_time, time_window) ==
    IF i > Len(path) THEN [current_time |-> current_time, time_window |-> time_window]
    ELSE LET node == NodesById(g)[path[i]]
             window == TimeWindow(zone_metadata, node.zone)
             found == IF current_time < window.min \/ current_time > window.max
                      THEN Append(time_window,
                                  [node |-> path[i], zone |-> node.zone,
                                   arrival_time |-> current_time, window |-> window])
                      ELSE time_window
             edge == IF i < Len(path) THEN find_edge(g, path[i], path[i + 1]) ELSE <<>>
         IN  TimeWindowPass(g, zone_metadata, path, i + 1,
                            IF edge # <<>> THEN current_time + edge[1].cost
                            ELSE current_time,
                            found)

validate_solution(g, config, zone_metadata, path, execution_time) ==
    LET total_population == TotalPopulation(NodesById(g), path)
        vehicle_capacity == config.vehicle_capacity
        capacity == IF total_population > vehicle_capacity
                    THEN <<[population |-> total_population,
                            capacity |-> vehicle_capacity,
                            overflow |-> total_population - vehicle_capacity]>>
                    ELSE <<>>
        walked == TimeWindowPass(g, zone_metadata, path, 1, 0, <<>>)
        total_time == walked.current_time > config.time_limit
    IN  [is_valid |-> capacity = <<>> /\ walked.time_window = <<>> /\ ~total_time,
         violations |->
            [capacity |-> capacity,
             time_window |-> walked.time_window,
             total_time |-> total_time,
             population_served |-> IF total_population < vehicle_capacity
                                   THEN total_population ELSE vehicle_capacity,
             population_left |-> IF total_population - vehicle_capacity > 0
                                 THEN total_population - vehicle_capacity ELSE 0]]

Abs(n) == IF n < 0 THEN -n ELSE n

\* a penalty that measures every violation from the window's min
RECURSIVE TimeWindowPenaltyFromMin(_)
TimeWindowPenaltyFromMin(time_window) ==
    IF time_window = <<>> THEN 0
    ELSE Abs(Head(time_window).arrival_time - Head(time_window).window.min) * 20
         + TimeWindowPenaltyFromMin(Tail(time_window))

RECURSIVE TimeWindowPenalty(_)
TimeWindowPenalty(time_window) ==
    IF time_window = <<>> THEN 0
    ELSE LET tw_violation == Head(time_window)
             to_min == Abs(tw_violation.arrival_time - tw_violation.window.min)
             to_max == Abs(tw_violation.arrival_time - tw_violation.window.max)
         IN  (IF to_min < to_max THEN to_min ELSE to_max) * 20
             + TimeWindowPenalty(Tail(time_window))

\* a variant of CapacityPenalty that charges the overflow beyond the first unit
RECURSIVE CapacityPenaltyAboveOne(_)
CapacityPenaltyAboveOne(capacity) ==
    IF capacity = <<>> THEN 0
    ELSE (Head(capacity).overflow - 1) * 10 + CapacityPenaltyAboveOne(Tail(capacity))

\* `for cap_violation in violations["capacity"]`
RECURSIVE CapacityPenalty(_)
CapacityPenalty(capacity) ==
    IF capacity = <<>> THEN 0
    ELSE Head(capacity).overflow * 10 + CapacityPenalty(Tail(capacity))

calculate_penalty(violations) ==
    CapacityPenalty(violations.capacity)
    + TimeWindowPenalty(violations.time_window)
    + (IF violations.total_time THEN 500 ELSE 0)

(***************************************************************************)
(* constraints.py: MultiVehicleRouter                                      *)
(***************************************************************************)
\* the vehicles list once the loop is left, by its end or by break
LastVehicle(config, vehicles, current_vehicle) ==
    IF current_vehicle.route # <<>> /\ Len(vehicles) < config.num_vehicles
    THEN Append(vehicles, current_vehicle)
    ELSE vehicles

\* `for node_data in path_populations` from position i on
RECURSIVE GreedyAssignment(_, _, _, _, _, _)
GreedyAssignment(nodes, config, single_path, i, vehicles, current_vehicle) ==
    IF i > Len(single_path) THEN LastVehicle(config, vehicles, current_vehicle)
    ELSE LET node_id == single_path[i]
             population == nodes[node_id].population
         IN  IF current_vehicle.population + population <= config.vehicle_capacity
             THEN GreedyAssignment(
                      nodes, config, single_path, i + 1, vehicles,
                      [current_vehicle EXCEPT !.nodes = Append(@, node_id),
                                              !.population = @ + population,
                                              !.route = Append(@, node_id)])
             ELSE LET closed == IF current_vehicle.route # <<>>
                                THEN Append(vehicles, current_vehicle)
                                ELSE vehicles
                  IN  IF Len(closed) >= config.num_vehicles
                      THEN LastVehicle(config, closed, current_vehicle)
                      ELSE GreedyAssignment(
                               nodes, config, single_path, i + 1, closed,
                               [id |-> Len(closed), route |-> <<node_id>>,
                                population |-> population, nodes |-> <<node_id>>])

plan_multi_vehicle_routes(g, config, single_path) ==
    GreedyAssignment(NodesById(g), config, single_path, 1, <<>>,
                     [id |-> 0, route |-> <<>>, population |-> 0, nodes |-> <<>>])

(***************************************************************************)
(* quantum.py: solve_constrained and _qaoa_constrained_solver              *)
(* The measured bitstrings only reach _bfs_path_with_node_set, which does  *)
(* not read selected_nodes: what the circuit returns is the number of      *)
(* distinct bitstrings, at most 5 of which are tried.                      *)
(***************************************************************************)
\* `[:5]`
TopStates == 5

\* the `while queue` loop of _bfs_path_with_node_set: it goes on after the end is
\* dequeued and keeps the shortest path dequeued there
RECURSIVE NodeSetLoop(_, _, _, _)
NodeSetLoop(st, adjacency, end_id, best_path) ==
    IF st.queue = <<>> THEN best_path
    ELSE LET path == Head(st.queue)
             current == path[Len(path)]
             rest == [st EXCEPT !.queue = Tail(@)]
         IN  IF current = end_id
             THEN NodeSetLoop(rest, adjacency, end_id,
                              IF best_path = <<>> \/ Len(path) < Len(best_path)
                              THEN path ELSE best_path)
             ELSE NodeSetLoop(BfsExpand(rest, path, adjacency[current]),
                              adjacency, end_id, best_path)

\* its adjacency is a dict keyed by the from_ids of the kept edges, read with
\* adjacency.get(current, []): the lists of AnnealAdjacency
bfs_path_with_node_set(start_id, end_id, g, avoid_hazards) ==
    NodeSetLoop([queue |-> <<<<start_id>>>>, visited |-> {start_id}],
                AnnealAdjacency(g, avoid_hazards), end_id, <<>>)

\* `cost += edge["cost"]` over the consecutive pairs that _find_edge_data finds
RECURSIVE EdgeDataCost(_, _)
EdgeDataCost(g, path) ==
    IF Len(path) <= 1 THEN 0
    ELSE LET edge == find_edge(g, path[1], path[2])
         IN  (IF edge # <<>> THEN edge[1].cost ELSE 0) + EdgeDataCost(g, Tail(path))

\* what one bitstring gives: the path, its violations and cost + penalty
QaoaCandidate(start, end, g, config, zone_metadata) ==
    LET path == bfs_path_with_node_set(start, end, g, FALSE)
        cost == EdgeDataCost(g, path)
        violations == validate_solution(g, config, zone_metadata, path, cost).violations
    IN  [path |-> path, violations |-> violations,
         adjusted_cost |-> cost + calculate_penalty(violations)]

\* `for bitstring, count in sorted_counts` over `measured` bitstrings
RECURSIVE QaoaLoop(_, _, _)
QaoaLoop(best, candidate, measured) ==
    IF measured = 0 THEN best
    ELSE QaoaLoop(IF candidate.path # <<>> /\ candidate.adjusted_cost < best.best_cost
                  THEN [best_path |-> candidate.path,
                        best_cost |-> candidate.adjusted_cost,
                        best_violations |-> candidate.violations]
                  ELSE best,
                  candidate, measured - 1)

QaoaSearch(start, end, g, config, zone_metadata, measured) ==
    QaoaLoop([best_path |-> <<>>, best_cost |-> Inf, best_violations |-> <<>>],
             QaoaCandidate(start, end, g, config, zone_metadata), measured)

\* the constraint_info of _qaoa_constrained_solver
QaoaConstraintInfo(best_violations, best_cost) ==
    [is_valid |-> best_violations.capacity = <<>> /\ best_violations.time_window = <<>>,
     violations |-> best_violations,
     penalty |-> calculate_penalty(best_violations),
     adjusted_cost |-> best_cost]

\* the return of _qaoa_constrained_solver once best_path and best_cost are set, by the
\* loop or by the annealing fallback
QaoaReturn(g, config, zone_metadata, best_path, best_cost, best_violations) ==
    [path |-> best_path, cost |-> best_cost,
     info |-> QaoaConstraintInfo(best_violations, best_cost)]

\* solve_constrained after its annealing call
AnnealingConstrainedReturn(g, config, zone_metadata, path, cost) ==
    LET validated == validate_solution(g, config, zone_metadata, path, cost)
        penalty == calculate_penalty(validated.violations)
    IN  [path |-> path, cost |-> cost,
         info |-> [is_valid |-> validated.is_valid,
                   violations |-> validated.violations,
                   penalty |-> penalty,
                   adjusted_cost |-> Plus(cost, penalty)]]

(***************************************************************************)
(* Inputs of the exact solvers: graph_data with the request made on it.    *)
(***************************************************************************)
MaxCost == 2

MaxCoord == 2

PlainNode(id) ==
    [id |-> id, x |-> 0, y |-> 0, zone |-> "A", population |-> 0,
     hazard |-> FALSE, blocked |-> FALSE,
     risk_level |-> 0, hazard_probability |-> 0, congestion_score |-> 0]

PlainEdge(from, to, cost) ==
    [from |-> from, to |-> to, cost |-> cost, risk |-> 1,
     hazard |-> FALSE, blocked |-> FALSE]

DefaultWeights ==
    [distance_weight |-> 1, risk_weight |-> 0, hazard_weight |-> 0, congestion_weight |-> 0]

RiskWeights ==
    [distance_weight |-> 1, risk_weight |-> 1, hazard_weight |-> 0, congestion_weight |-> 0]

Request(start, end, avoid_hazards, weights) ==
    [call |-> "route", start |-> start, end |-> end,
     avoid_hazards |-> avoid_hazards, weights |-> weights]

\* the edges of `slots` whose pick is a cost (a pick of -1 leaves the slot out)
RECURSIVE PickEdges(_, _, _)
PickEdges(slots, pick, i) ==
    IF i > Len(slots) THEN <<>>
    ELSE IF pick[i] < 0 THEN PickEdges(slots, pick, i + 1)
         ELSE <<PlainEdge(slots[i][1], slots[i][2], pick[i])>> \o PickEdges(slots, pick, i + 1)

\* Costs and topology: edge lists over nodes 0..3, listed out of node order, every
\* slot absent or present with a cost 0..MaxCost; 3 -> 0 closes cycles.
CostSlots == <<<<0, 2>>, <<0, 1>>, <<3, 0>>, <<2, 3>>, <<1, 3>>>>

InitCost ==
    \E pick \in [1..Len(CostSlots) -> -1..MaxCost], s \in 0..3, e \in 0..3 :
        /\ graph = [nodes |-> [i \in 1..4 |-> PlainNode(i - 1)],
                    edges |-> PickEdges(CostSlots, pick, 1)]
        /\ req = Request(s, e, FALSE, DefaultWeights)

\* The scenario graph 0->1 (2), 0->2 (1), 1->3 (2), 2->3 (4) with a back edge 3->0,
\* under every placement of at most one blocked and one hazard flag
\* on a node or an edge; node 2 carries a risk level.
ScenarioEdges ==
    <<PlainEdge(0, 1, 2), PlainEdge(0, 2, 1), PlainEdge(1, 3, 2),
      PlainEdge(2, 3, 4), PlainEdge(3, 0, 1)>>

FlagChoices == {[kind |-> "none", at |-> 0]}
               \cup {[kind |-> "node", at |-> n] : n \in 0..3}
               \cup {[kind |-> "edge", at |-> i] : i \in 1..Len(ScenarioEdges)}

FlaggedGraph(b, h) ==
    [nodes |-> [i \in 1..4 |->
                  [PlainNode(i - 1) EXCEPT
                      !.blocked = (b.kind = "node" /\ b.at = i - 1),
                      !.hazard = (h.kind = "node" /\ h.at = i - 1),
                      !.risk_level = IF i - 1 = 2 THEN 2 * MaxCost ELSE 0]],
     edges |-> [i \in 1..Len(ScenarioEdges) |->
                  [ScenarioEdges[i] EXCEPT
                      !.blocked = (b.kind = "edge" /\ b.at = i),
                      !.hazard = (h.kind = "edge" /\ h.at = i)]]]

InitFlags ==
    \E b \in FlagChoices, h \in FlagChoices, s \in 0..3, e \in 0..3,
       a \in BOOLEAN, w \in {DefaultWeights, RiskWeights} :
        /\ graph = FlaggedGraph(b, h)
        /\ req = Request(s, e, a, w)

\* Coordinates: five nodes, all edges of cost 1, node 4 (the end) at the origin, nodes
\* 0 and 2 anywhere on the grid (0..MaxCoord) x (0..1) and nodes 1 and 3 anywhere on
\* the x axis up to MaxCoord; the edges 0->1, 1->3, 3->4 and 0->2, 2->4 are always
\* there, 0->4, 1->4 and 2->3 may be.
CoordCore == <<<<0, 1>>, <<0, 2>>>>

CoordSlots == <<<<0, 4>>, <<1, 4>>, <<1, 3>>, <<3, 4>>, <<2, 4>>, <<2, 3>>>>

CoordPicks ==
    {pick \in [1..Len(CoordSlots) -> {-1, 1}] : pick[3] = 1 /\ pick[4] = 1 /\ pick[5] = 1}

InitCoords ==
    \E xs \in [1..4 -> 0..MaxCoord], ys \in [{1, 3} -> 0..1], pick \in CoordPicks :
        /\ graph = [nodes |-> [i \in 1..5 |->
                                 IF i = 5 THEN PlainNode(4)
                                 ELSE [PlainNode(i - 1) EXCEPT
                                         !.x = xs[i],
                                         !.y = IF i \in DOMAIN ys THEN ys[i] ELSE 0]],
                    edges |-> PickEdges(CoordCore, [i \in 1..2 |-> 1], 1)
                              \o PickEdges(CoordSlots, pick, 1)]
        /\ req = Request(0, 4, FALSE, DefaultWeights)

\* no constraint_info
NoInfo ==
    [is_valid |-> FALSE, penalty |-> 0, adjusted_cost |-> 0,
     violations |-> [capacity |-> <<>>, time_window |-> <<>>, total_time |-> FALSE,
                     population_served |-> 0, population_left |-> 0]]

NoResult ==
    [alg |-> "none", path |-> <<>>, cost |-> 0, evaluated_states |-> 0,
     pops |-> <<>>, built |-> FALSE, info |-> NoInfo, raised |-> "none",
     vehicles |-> <<>>]

Returned(alg, r) ==
    [alg |-> alg, path |-> r.path, cost |-> r.cost,
     evaluated_states |-> r.evaluated_states, pops |-> r.pops, built |-> r.built,
     info |-> NoInfo, raised |-> "none", vehicles |-> <<>>]

\* no annealing loop in progress
Idle ==
    [pc |-> "idle", caller |-> "none",
     loop |-> [initial_path |-> <<>>, current_path |-> <<>>, current_cost |-> Inf,
               best_path |-> <<>>, best_cost |-> Inf, iteration |-> 0, cooled |-> 0]]

Init ==
    /\ InitCost \/ InitFlags \/ InitCoords
    /\ res = NoResult
    /\ run = Idle

CallDijkstra ==
    /\ req.call = "route" /\ res.alg = "none" /\ run.pc = "idle"
    /\ res' = Returned("dijkstra",
                       dijkstra(req.start, req.end, graph, req.avoid_hazards, req.weights))
    /\ UNCHANGED <<graph, req, run>>

CallAstar ==
    /\ req.call = "route" /\ res.alg = "none" /\ run.pc = "idle"
    /\ res' = Returned("astar",
                       astar(req.start, req.end, graph, req.avoid_hazards, req.weights))
    /\ UNCHANGED <<graph, req, run>>

CallDynamicProgramming ==
    /\ req.call = "route" /\ res.alg = "none" /\ run.pc = "idle"
    /\ res' = Returned("dynamic_programming",
                       dynamic_programming(req.start, req.end, graph,
                                           req.avoid_hazards, req.weights))
    /\ UNCHANGED <<graph, req, run>>

Next == CallDijkstra \/ CallAstar \/ CallDynamicProgramming

Spec == Init /\ [][Next]_vars

\* Risk-weighted calls with coordinates: the five nodes and the edges of InitCoords,
\* every edge of base cost 1, nodes 0..3 with a risk_level of 0 or 2 each,
\* risk_weight 1 (the weighted cost of an edge is 1, 2 or 3); node 2 lies at twice
\* its drawn abscissa, on or one above the x axis, the other nodes on the axis.
InitInflated ==
    /\ \E xs \in [1..4 -> 0..MaxCoord], y2 \in 0..1, pick \in CoordPicks,
          risk \in [1..4 -> {0, 2}] :
          /\ graph = [nodes |-> [i \in 1..5 |->
                                   IF i = 5 THEN PlainNode(4)
                                   ELSE [PlainNode(i - 1) EXCEPT
                                           !.x = IF i = 3 THEN 2 * xs[i] ELSE xs[i],
                                           !.y = IF i = 3 THEN y2 ELSE 0,
                                           !.risk_level = risk[i]]],
                      edges |-> PickEdges(CoordCore, [i \in 1..2 |-> 1], 1)
                                \o PickEdges(CoordSlots, pick, 1)]
          /\ req = Request(0, 4, FALSE, RiskWeights)
    /\ res = NoResult
    /\ run = Idle

NextInflated == CallDijkstra \/ CallAstar

SpecInflated == InitInflated /\ [][NextInflated]_vars

(***************************************************************************)
(* Inputs of the annealing solver and of the constrained solves.           *)
(***************************************************************************)
MaxPopulation == 1

VehicleCapacity == 2

TimeLimit == 3

\* Annealing calls: nodes 0..2, the edges 0->1 (1), 0->2 (3), 1->2 (1) in this order
\* (the breadth-first start is the direct edge, the detour is cheaper), under every
\* placement of at most one blocked flag, with or without a hazard on node 1.
DetourEdges == <<PlainEdge(0, 1, 1), PlainEdge(0, 2, 3), PlainEdge(1, 2, 1)>>

DetourBlocked == {[kind |-> "none", at |-> 0]}
                 \cup {[kind |-> "node", at |-> n] : n \in 0..2}
                 \cup {[kind |-> "edge", at |-> i] : i \in 1..Len(DetourEdges)}

DetourGraph(b, hazard1) ==
    [nodes |-> [i \in 1..3 |->
                  [PlainNode(i - 1) EXCEPT
                      !.blocked = (b.kind = "node" /\ b.at = i - 1),
                      !.hazard = (hazard1 /\ i - 1 = 1)]],
     edges |-> [i \in 1..Len(DetourEdges) |->
                  [DetourEdges[i] EXCEPT !.blocked = (b.kind = "edge" /\ b.at = i)]]]

InitAnnealing ==
    \E b \in DetourBlocked, hazard1 \in BOOLEAN, se \in {<<0, 2>>, <<1, 2>>, <<2, 2>>} :
        /\ graph = DetourGraph(b, hazard1)
        /\ req = Request(se[1], se[2], hazard1, DefaultWeights)

\* An annealing call on the graph whose direct edge 0->2 costs 1: the breadth-first
\* start is the cheapest path and the detour through node 1 costs more.
InitShortcut ==
    /\ graph = [DetourGraph([kind |-> "none", at |-> 0], FALSE)
                    EXCEPT !.edges[2].cost = 1]
    /\ req = Request(0, 2, FALSE, DefaultWeights)

\* Constrained solves: the line 0 -> 1 -> 2 with costs 1..MaxCost, populations
\* 0..MaxPopulation, node 1 in zone A or B, the first edge blocked or not.  Node 0 is
\* in a zone the table does not list.  The annealing branch, whose every call is a
\* hundred draws, runs on the calls with the first cost 1 and the end nodes populated,
\* or with no path.
ZoneTable ==
    [zone \in {"A", "B", "EXIT"} |->
        [time_window |-> CASE zone = "A" -> [min |-> 0, max |-> 10]
                           [] zone = "B" -> [min |-> 2, max |-> 3]
                           [] OTHER -> [min |-> 0, max |-> 30]]]

ConstrainedGraph(cost1, cost2, zone1, population, blocked1) ==
    [nodes |-> <<[PlainNode(0) EXCEPT !.zone = "START", !.population = population[0]],
                 [PlainNode(1) EXCEPT !.zone = zone1, !.population = population[1]],
                 [PlainNode(2) EXCEPT !.zone = "EXIT", !.population = population[2]]>>,
     edges |-> <<[PlainEdge(0, 1, cost1) EXCEPT !.blocked = blocked1],
                 PlainEdge(1, 2, cost2)>>]

ConstrainedRequest(call, start, end, algorithm, qaoa_implemented) ==
    [call |-> call, start |-> start, end |-> end, algorithm |-> algorithm,
     qaoa_implemented |-> qaoa_implemented,
     config |-> [vehicle_capacity |-> VehicleCapacity, num_vehicles |-> 3,
                 time_limit |-> TimeLimit, constraint_penalty |-> 1000],
     zone_metadata |-> ZoneTable]

InitConstrained ==
    \E cost1 \in 1..MaxCost, cost2 \in 1..MaxCost, zone1 \in {"A", "B"},
       population \in [0..2 -> 0..MaxPopulation], blocked1 \in BOOLEAN,
       qaoa_implemented \in BOOLEAN :
        /\ \/ qaoa_implemented
           \/ blocked1
           \/ cost1 = 1 /\ population[0] = MaxPopulation /\ population[2] = MaxPopulation
        /\ graph = ConstrainedGraph(cost1, cost2, zone1, population, blocked1)
        /\ req = ConstrainedRequest("solve_constrained", 0, 2, "quantum", qaoa_implemented)

InitHardConstraints ==
    \E cost1 \in 1..MaxCost, zone1 \in {"A", "B"},
       algorithm \in {"dijkstra", "astar", "dp", "genetic"} :
        /\ graph = ConstrainedGraph(cost1, 1, zone1, [n \in 0..2 |-> MaxPopulation], FALSE)
        /\ req = ConstrainedRequest("solve_hard_constraints", 0, 2, algorithm, FALSE)

InitQuantum ==
    /\ InitAnnealing \/ InitShortcut \/ InitConstrained \/ InitHardConstraints
    /\ res = NoResult
    /\ run = Idle

(***************************************************************************)
(* The calls of the annealing solver and of the constrained solves.  The   *)
(* annealing loop is one step per pass: each pass draws from the random    *)
(* module.                                                                 *)
(***************************************************************************)
\* solve_constrained and the fallback of _qaoa_constrained_solver call the annealing
\* solver without avoid_hazards
AnnealingAvoidHazards(caller) == caller = "annealing" /\ req.avoid_hazards

\* what the caller of the annealing solver returns once the solver returned `ret`
AnnealReturned(caller, ret) ==
    IF caller = "annealing"
    THEN [NoResult EXCEPT !.alg = "annealing", !.path = ret.path, !.cost = ret.cost,
                          !.built = TRUE]
    ELSE LET out ==
                 IF caller = "solve_constrained"
                 THEN AnnealingConstrainedReturn(graph, req.config, req.zone_metadata,
                                                 ret.path, ret.cost)
                 ELSE QaoaReturn(graph, req.config, req.zone_metadata, ret.path, ret.cost,
                                 validate_solution(graph, req.config, req.zone_metadata,
                                                   ret.path, ret.cost).violations)
         IN  [NoResult EXCEPT !.alg = "solve_constrained", !.path = out.path,
                              !.cost = out.cost, !.built = TRUE, !.info = out.info]

\* _quantum_annealing_simulation up to its loop, or to its return when there is no
\* initial path
EnterAnnealing(caller) ==
    LET loop == AnnealEnter(req.start, req.end, graph, AnnealingAvoidHazards(caller))
    IN  IF loop.initial_path = <<>>
        THEN /\ res' = AnnealReturned(caller, [path |-> <<req.start, req.end>>,
                                               cost |-> Inf])
             /\ run' = [pc |-> "done", caller |-> caller, loop |-> loop]
        ELSE /\ res' = res
             /\ run' = [pc |-> "loop", caller |-> caller, loop |-> loop]

CallAnnealing ==
    /\ req.call = "route" /\ res.alg = "none" /\ run.pc = "idle"
    /\ EnterAnnealing("annealing")
    /\ UNCHANGED <<graph, req>>

CallSolveConstrained ==
    /\ req.call = "solve_constrained" /\ res.alg = "none" /\ run.pc = "idle"
    /\ IF req.qaoa_implemented
       THEN \E measured \in 1..TopStates :
                LET best == QaoaSearch(req.start, req.end, graph, req.config,
                                       req.zone_metadata, measured)
                    out == QaoaReturn(graph, req.config, req.zone_metadata,
                                      best.best_path, best.best_cost,
                                      best.best_violations)
                IN  IF best.best_path # <<>>
                    THEN /\ res' = [NoResult EXCEPT !.alg = "solve_constrained",
                                                    !.path = out.path,
                                                    !.cost = out.cost,
                                                    !.built = TRUE,
                                                    !.info = out.info]
                         /\ run' = [run EXCEPT !.pc = "done", !.caller = "qaoa"]
                    ELSE EnterAnnealing("qaoa_fallback")
       ELSE EnterAnnealing("solve_constrained")
    /\ UNCHANGED <<graph, req>>

\* one pass of the annealing loop; the hundredth goes on to the return
AnnealStep ==
    /\ run.pc = "loop" /\ run.loop.iteration < num_iterations
    /\ \E operation \in {"insert", "remove", "swap"} :
         \E drawn \in generate_neighbor_path(run.loop.current_path, NodeIds(graph),
                                             operation) :
            IF drawn.raised # "none"
            THEN /\ res' = [NoResult EXCEPT
                               !.alg = IF run.caller = "annealing" THEN "annealing"
                                       ELSE "solve_constrained",
                               !.built = TRUE,
                               !.raised = drawn.raised]
                 /\ run' = [run EXCEPT !.pc = "done"]
            ELSE LET adjacency == AnnealAdjacency(graph, AnnealingAvoidHazards(run.caller))
                     candidate_cost == path_cost(adjacency, drawn.path)
                 IN  \E accept \in IF candidate_cost = Inf THEN {FALSE}
                                   ELSE AcceptOutcomes(candidate_cost - run.loop.current_cost,
                                                       run.loop.cooled) :
                        LET loop == AnnealIterate(run.loop, adjacency, drawn.path, accept)
                        IN  IF loop.iteration < num_iterations
                            THEN /\ run' = [run EXCEPT !.loop = loop]
                                 /\ res' = res
                            ELSE /\ run' = [run EXCEPT !.pc = "done", !.loop = loop]
                                 /\ res' = AnnealReturned(run.caller,
                                                          AnnealResult(loop, adjacency))
    /\ UNCHANGED <<graph, req>>

\* what a solver returns: a tuple of three
SolverTuple(r) == <<r.path, r.cost, r.evaluated_states>>

\* main.solve_hard_constraints, classical branch: the call made for request.algorithm
\* with the solver's defaults
ClassicalSolverReturn(algorithm, start, end, g) ==
    IF algorithm = "astar" THEN SolverTuple(astar(start, end, g, FALSE, DefaultWeights))
    ELSE IF algorithm = "dp"
         THEN SolverTuple(dynamic_programming(start, end, g, FALSE, DefaultWeights))
         ELSE SolverTuple(dijkstra(start, end, g, FALSE, DefaultWeights))

\* `path, cost = <returned>` and the validation that follows it; unpacking a tuple
\* that is not a pair raises ValueError
ClassicalConstrainedReturn(g, config, zone_metadata, returned) ==
    IF Len(returned) # 2
    THEN [NoResult EXCEPT !.alg = "solve_hard_constraints", !.raised = "ValueError"]
    ELSE [NoResult EXCEPT
             !.alg = "solve_hard_constraints",
             !.path = returned[1], !.cost = returned[2], !.built = TRUE,
             !.info = AnnealingConstrainedReturn(g, config, zone_metadata,
                                                 returned[1], returned[2]).info]

CallSolveHardConstraints ==
    /\ req.call = "solve_hard_constraints" /\ res.alg = "none" /\ run.pc = "idle"
    /\ res' = ClassicalConstrainedReturn(
                  graph, req.config, req.zone_metadata,
                  ClassicalSolverReturn(req.algorithm, req.start, req.end, graph))
    /\ UNCHANGED <<graph, req, run>>

NextQuantum ==
    \/ CallDijkstra \/ CallAstar \/ CallDynamicProgramming
    \/ CallAnnealing \/ AnnealStep
    \/ CallSolveConstrained \/ CallSolveHardConstraints

SpecQuantum == InitQuantum /\ [][NextQuantum]_vars

(***************************************************************************)
(* Inputs and calls of the constraint validator and of the multi-vehicle   *)
(* router: validate_solution, calculate_penalty and                        *)
(* plan_multi_vehicle_routes in the order solve_hard_constraints makes     *)
(* them, on every node list of up to as many entries as the graph has      *)
(* nodes.                                                                  *)
(***************************************************************************)
MaxLoad == 2

MaxVehicles == 2

NodePaths(g) == UNION {[1..n -> NodeIds(g)] : n \in 1..Len(g.nodes)}

\* the cycle 0 -> 1 -> 2 -> 0
CycleGraph(cost1, cost2, zone, population) ==
    [nodes |-> [i \in 1..3 |->
                  [PlainNode(i - 1) EXCEPT !.zone = zone[i - 1],
                                           !.population = population[i - 1]]],
     edges |-> <<PlainEdge(0, 1, cost1), PlainEdge(1, 2, cost2), PlainEdge(2, 0, 1)>>]

ValidationRequest(path, vehicle_capacity, num_vehicles) ==
    [call |-> "validate", path |-> path,
     config |-> [vehicle_capacity |-> vehicle_capacity, num_vehicles |-> num_vehicles,
                 time_limit |-> TimeLimit, constraint_penalty |-> 1000],
     zone_metadata |-> ZoneTable]

\* populations 0..MaxLoad against capacities 1..VehicleCapacity and 1..MaxVehicles
\* vehicles
InitLoads ==
    \E population \in [0..2 -> 0..MaxLoad], vehicle_capacity \in 1..VehicleCapacity,
       num_vehicles \in 1..MaxVehicles :
        /\ graph = CycleGraph(1, 1, [n \in 0..2 |-> "A"], population)
        /\ \E path \in NodePaths(graph) :
               req = ValidationRequest(path, vehicle_capacity, num_vehicles)

\* costs 1..MaxCost and every placement of the zones A, B and START (which the table
\* does not list), with the nodes empty or loaded
InitWindows ==
    \E cost1 \in 1..MaxCost, cost2 \in 1..MaxCost, zone \in [0..2 -> {"A", "B", "START"}],
       load \in {0, MaxLoad} :
        /\ graph = CycleGraph(cost1, cost2, zone, [n \in 0..2 |-> load])
        /\ \E path \in NodePaths(graph) :
               req = ValidationRequest(path, VehicleCapacity, MaxVehicles)

\* violations dicts handed to calculate_penalty directly: up to two capacity
\* violations, up to two time-window violations on either side of the window of zone B
CapacityViolations ==
    {[population |-> VehicleCapacity + overflow, capacity |-> VehicleCapacity,
      overflow |-> overflow] : overflow \in 1..MaxLoad}

WindowViolations ==
    {[node |-> 1, zone |-> "B", arrival_time |-> arrival_time,
      window |-> ZoneTable["B"].time_window] :
        arrival_time \in {t \in 0..(2 * MaxCost + 1) :
                             \/ t < ZoneTable["B"].time_window.min
                             \/ t > ZoneTable["B"].time_window.max}}

InitViolations ==
    \E capacity \in UNION {[1..n -> CapacityViolations] : n \in 0..2},
       time_window \in UNION {[1..n -> WindowViolations] : n \in 0..2},
       total_time \in BOOLEAN :
        /\ graph = CycleGraph(1, 1, [n \in 0..2 |-> "B"], [n \in 0..2 |-> 0])
        /\ req = [call |-> "penalty",
                  violations |-> [capacity |-> capacity, time_window |-> time_window,
                                  total_time |-> total_time,
                                  population_served |-> 0, population_left |-> 0]]

InitConstraints ==
    /\ InitLoads \/ InitWindows \/ InitViolations
    /\ res = NoResult
    /\ run = Idle

\* validator.validate_solution(path, execution_time)
CallValidateSolution ==
    /\ req.call = "validate" /\ res.alg = "none"
    /\ LET validated == validate_solution(graph, req.config, req.zone_metadata,
                                          req.path, 0)
       IN  res' = [NoResult EXCEPT !.alg = "validate_solution", !.path = req.path,
                                   !.info.is_valid = validated.is_valid,
                                   !.info.violations = validated.violations]
    /\ UNCHANGED <<graph, req, run>>

\* validator.calculate_penalty(violations), on the violations validate_solution
\* returned or on those of the request
CallCalculatePenalty ==
    /\ \/ req.call = "validate" /\ res.alg = "validate_solution"
          /\ res' = [res EXCEPT !.alg = "calculate_penalty",
                                !.info.penalty = calculate_penalty(res.info.violations)]
       \/ req.call = "penalty" /\ res.alg = "none"
          /\ res' = [res EXCEPT !.alg = "calculate_penalty",
                                !.info.violations = req.violations,
                                !.info.penalty = calculate_penalty(req.violations)]
    /\ UNCHANGED <<graph, req, run>>

\* router.plan_multi_vehicle_routes(path); the response carries len(vehicles) next to
\* the population_left of the violations
CallPlanMultiVehicleRoutes ==
    /\ req.call = "validate" /\ res.alg = "calculate_penalty"
    /\ res' = [res EXCEPT !.alg = "plan_multi_vehicle_routes",
                          !.vehicles = plan_multi_vehicle_routes(graph, req.config,
                                                                 res.path)]
    /\ UNCHANGED <<graph, req, run>>

NextConstraints ==
    CallValidateSolution \/ CallCalculatePenalty \/ CallPlanMultiVehicleRoutes

SpecConstraints == InitConstraints /\ [][NextConstraints]_vars

(***************************************************************************)
(* main.py: the graph mutations against a running solve.  The endpoints    *)
(* are plain functions, which the server runs on worker threads; they      *)
(* share the module's graph_data and take no lock.  A write is a step of   *)
(* the mutation; the solve is dijkstra, one step for its entry, one for    *)
(* the start of build_adjacency, one per edge, one for the search.         *)
(* update_hazards and update_constraints write into the node and edge      *)
(* dicts the solve may hold; update_graph installs new lists.              *)
(***************************************************************************)
\* nodes_by_id[node_id][flag] = value: the last node of the id
SetNodeFlag(nodes, node_id, flag, value) ==
    [i \in DOMAIN nodes |->
        IF /\ nodes[i].id = node_id
           /\ \A j \in DOMAIN nodes : nodes[j].id = node_id => j <= i
        THEN [nodes[i] EXCEPT ![flag] = value]
        ELSE nodes[i]]

\* the first edge from from_node to `to` gets the flag, then `break`
SetEdgeFlag(edges, from_node, to, flag, value) ==
    [i \in DOMAIN edges |->
        IF /\ edges[i].from = from_node /\ edges[i].to = to
           /\ \A j \in 1..(i - 1) : ~(edges[j].from = from_node /\ edges[j].to = to)
        THEN [edges[i] EXCEPT ![flag] = value]
        ELSE edges[i]]

NodeWrites(node_ids, flag, value) ==
    [i \in DOMAIN node_ids |->
        [op |-> "node_flag", id |-> node_ids[i], flag |-> flag, value |-> value]]

EdgeWrites(edge_ids, flag, value) ==
    [i \in DOMAIN edge_ids |->
        [op |-> "edge_flag", from_node |-> edge_ids[i].from_node, to |-> edge_ids[i].to,
         flag |-> flag, value |-> value]]

\* the writes an endpoint makes to graph_data, in order
update_hazards(payload) ==
    NodeWrites(payload.node_ids, "hazard", payload.set_to)
    \o EdgeWrites(payload.edge_ids, "hazard", payload.set_to)

update_constraints(payload) ==
    NodeWrites(payload.blocked_nodes, "hazard", TRUE)
    \o EdgeWrites(payload.blocked_edges, "blocked", TRUE)

update_graph(payload) ==
    (IF payload.nodes_given THEN <<[op |-> "nodes", nodes |-> payload.nodes]>> ELSE <<>>)
    \o (IF payload.edges_given THEN <<[op |-> "edges", edges |-> payload.edges]>>
        ELSE <<>>)

EndpointWrites(update) ==
    CASE update.kind = "update_hazards" -> update_hazards(update)
      [] update.kind = "update_constraints" -> update_constraints(update)
      [] OTHER -> update_graph(update)

\* a write as the holder of the node dicts and the edge dicts sees it
WriteNodes(nodes, w) ==
    IF w.op = "node_flag" THEN SetNodeFlag(nodes, w.id, w.flag, w.value) ELSE nodes

WriteEdges(edges, w) ==
    IF w.op = "edge_flag" THEN SetEdgeFlag(edges, w.from_node, w.to, w.flag, w.value)
    ELSE edges

\* a write as graph_data sees it
WriteGraph(g, w) ==
    CASE w.op = "nodes" -> [g EXCEPT !.nodes = w.nodes]
      [] w.op = "edges" -> [g EXCEPT !.edges = w.edges]
      [] OTHER -> [nodes |-> WriteNodes(g.nodes, w), edges |-> WriteEdges(g.edges, w)]

RECURSIVE WriteAll(_, _)
WriteAll(g, writes) ==
    IF writes = <<>> THEN g ELSE WriteAll(WriteGraph(g, Head(writes)), Tail(writes))

\* dijkstra from line 69 on, over the adjacency it got
DijkstraSearch(start, end, node_ids, adjacency) ==
    LET st0 == [distances |-> [n \in node_ids |-> IF n = start THEN 0 ELSE Inf],
                parent |-> [n \in node_ids |-> NoParent],
                pq |-> <<<<0, start>>>>,
                evaluated_states |-> 0,
                pops |-> <<>>]
        st == DijkstraLoop(st0, adjacency, end)
    IN  [path |-> ReconstructPath(st.parent, end),
         cost |-> st.distances[end],
         evaluated_states |-> st.evaluated_states,
         pops |-> st.pops, built |-> TRUE]

\* The graph before the endpoint is called: the detour graph, with or without a
\* hazard on node 1.
EdgeRefs == {<<>>} \cup {<<[from_node |-> DetourEdges[i].from, to |-> DetourEdges[i].to]>> :
                            i \in DOMAIN DetourEdges}

HazardUpdates ==
    {[kind |-> "update_hazards", node_ids |-> node_ids, edge_ids |-> edge_ids,
      set_to |-> set_to] :
        node_ids \in {<<>>, <<1>>, <<1, 2>>, <<2, 1>>}, edge_ids \in EdgeRefs,
        set_to \in BOOLEAN}

ConstraintsUpdates ==
    {[kind |-> "update_constraints", blocked_nodes |-> blocked_nodes,
      blocked_edges |-> blocked_edges] :
        blocked_nodes \in {<<>>, <<1>>, <<2>>}, blocked_edges \in EdgeRefs}

\* replacement lists: node 1 flagged, the edges without the first one
GraphUpdates ==
    {[kind |-> "update_graph", nodes_given |-> nodes_given,
      nodes |-> DetourGraph([kind |-> "none", at |-> 0], TRUE).nodes,
      edges_given |-> edges_given, edges |-> Tail(DetourEdges)] :
        nodes_given \in BOOLEAN, edges_given \in BOOLEAN}

\* run is a solve in flight (pc, the lists it holds, its place in the edge loop, the
\* adjacency triples so far) and the endpoint's place in its writes
InitConcurrent ==
    /\ \E hazard1 \in BOOLEAN, avoid_hazards \in BOOLEAN,
          update \in HazardUpdates \cup ConstraintsUpdates \cup GraphUpdates :
            /\ graph = DetourGraph([kind |-> "none", at |-> 0], hazard1)
            /\ req = [call |-> "concurrent", start |-> 0, end |-> 2,
                      avoid_hazards |-> avoid_hazards, weights |-> DefaultWeights,
                      update |-> update, before |-> graph]
    /\ res = NoResult
    /\ run = [pc |-> "enter", caller |-> "dijkstra", ids |-> {}, nodes |-> <<>>,
              edges |-> <<>>, k |-> 1, triples |-> <<>>, written |-> 0,
              entered_after |-> 0]

\* one write of the endpoint; the dicts the solve holds are the dicts written
EndpointStep(kind) ==
    /\ req.call = "concurrent" /\ req.update.kind = kind
    /\ run.written < Len(EndpointWrites(req.update))
    /\ LET w == EndpointWrites(req.update)[run.written + 1]
       IN  /\ graph' = WriteGraph(graph, w)
           /\ run' = [run EXCEPT !.written = @ + 1,
                                 !.nodes = WriteNodes(@, w),
                                 !.edges = WriteEdges(@, w)]
    /\ UNCHANGED <<req, res>>

UpdateHazards == EndpointStep("update_hazards")

UpdateConstraints == EndpointStep("update_constraints")

UpdateGraph == EndpointStep("update_graph")

\* dijkstra lines 56-59
SolveEnter ==
    /\ req.call = "concurrent" /\ run.pc = "enter"
    /\ IF EndpointBlocked(graph, req.start) \/ EndpointBlocked(graph, req.end)
       THEN /\ res' = Returned("dijkstra",
                               [path |-> <<req.start, req.end>>, cost |-> Inf,
                                evaluated_states |-> 0, pops |-> <<>>, built |-> FALSE])
            /\ run' = [run EXCEPT !.pc = "done", !.entered_after = run.written]
       ELSE /\ res' = res
            /\ run' = [run EXCEPT !.pc = "build_adjacency", !.ids = NodeIds(graph),
                                  !.entered_after = run.written]
    /\ UNCHANGED <<graph, req>>

\* build_adjacency lines 15-25: the node dicts and the edge list it will walk
SolveBuildAdjacency ==
    /\ req.call = "concurrent" /\ run.pc = "build_adjacency"
    /\ run' = [run EXCEPT !.pc = "edges", !.nodes = graph.nodes, !.edges = graph.edges]
    /\ UNCHANGED <<graph, req, res>>

\* build_adjacency lines 26-41 for the next edge
SolveEdge ==
    /\ req.call = "concurrent" /\ run.pc = "edges" /\ run.k <= Len(run.edges)
    /\ run' = [run EXCEPT
                  !.k = @ + 1,
                  !.triples = @ \o WeightedEdges([nodes |-> run.nodes, edges |-> run.edges],
                                                 <<run.edges[run.k]>>,
                                                 req.avoid_hazards, req.weights)]
    /\ UNCHANGED <<graph, req, res>>

\* dijkstra lines 69-100
SolveSearch ==
    /\ req.call = "concurrent" /\ run.pc = "edges" /\ run.k > Len(run.edges)
    /\ res' = Returned("dijkstra",
                       DijkstraSearch(req.start, req.end, run.ids,
                                      [node_id \in run.ids |->
                                          NeighborList(run.triples, node_id)]))
    /\ run' = [run EXCEPT !.pc = "done"]
    /\ UNCHANGED <<graph, req>>

NextConcurrent ==
    \/ UpdateHazards \/ UpdateConstraints \/ UpdateGraph
    \/ SolveEnter \/ SolveBuildAdjacency \/ SolveEdge \/ SolveSearch

SpecConcurrent == InitConcurrent /\ [][NextConcurrent]_vars

(***************************************************************************)
(* The random module: one generator for the whole process.  quantum.py and *)
(* genetic.py call random.choice, random.randint and random.random of the  *)
(* module, so every solve draws from that generator.  A seeded generator   *)
(* is a fixed sequence of draws; a pass of the annealing loop takes the    *)
(* next entry (its operation, positions, node and acceptance draw), and so *)
(* does a draw made by another solve.                                      *)
(***************************************************************************)
MaxSeed == 2

MaxOtherDraws == 2

\* the sequence of the generator seeded with `seed`: the entry at position `seed`
\* inserts node 1 after the start, the others swap a position with itself; the
\* acceptance draw is 0.0, below every positive exp()
RandomDraw(seed, n) ==
    IF n = seed
    THEN [operation |-> "insert", pos1 |-> 1, pos2 |-> 1, node |-> 1]
    ELSE [operation |-> "swap", pos1 |-> 1, pos2 |-> 1, node |-> 1]

\* _generate_neighbor_path under the draw: the candidate the drawn positions and node
\* give when they are in the ranges the code draws from
DrawnNeighbor(path, possible_nodes, draw) ==
    LET wanted == IF draw.operation = "insert"
                  THEN InsertAt(path, draw.pos1, draw.node)
                  ELSE IF draw.operation = "swap"
                       THEN SwapAt(path, draw.pos1, draw.pos2)
                       ELSE RemoveAt(path, draw.pos1 + 1)
    IN  IF [raised |-> "none", path |-> wanted]
              \in generate_neighbor_path(path, possible_nodes, draw.operation)
        THEN wanted
        ELSE path

\* one pass of the annealing loop on the draw
SeededPass(st, g, adjacency, draw) ==
    LET candidate_path == DrawnNeighbor(st.current_path, NodeIds(g), draw)
        candidate_cost == path_cost(adjacency, candidate_path)
    IN  AnnealIterate(st, adjacency, candidate_path,
                      candidate_cost # Inf
                      /\ TRUE \in AcceptOutcomes(candidate_cost - st.current_cost,
                                                 st.cooled))

\* the whole loop on the draws n, n + 1, ... of the generator
RECURSIVE SeededLoop(_, _, _, _, _)
SeededLoop(st, g, adjacency, seed, n) ==
    IF st.iteration >= num_iterations THEN st
    ELSE SeededLoop(SeededPass(st, g, adjacency, RandomDraw(seed, n)),
                    g, adjacency, seed, n + 1)

InitRandom ==
    /\ \E seed \in 0..MaxSeed, b \in DetourBlocked :
          /\ graph = DetourGraph(b, FALSE)
          /\ req = [call |-> "random", start |-> 0, end |-> 2, avoid_hazards |-> FALSE,
                    weights |-> DefaultWeights, seed |-> seed]
    /\ res = NoResult
    /\ run = [pc |-> "idle", caller |-> "annealing", loop |-> Idle.loop,
              generator |-> 0, other |-> 0]

\* random.seed(seed) and the call, up to the loop
CallSeededAnnealing ==
    /\ req.call = "random" /\ run.pc = "idle"
    /\ LET loop == AnnealEnter(req.start, req.end, graph, req.avoid_hazards)
       IN  IF loop.initial_path = <<>>
           THEN /\ res' = AnnealReturned("annealing", [path |-> <<req.start, req.end>>,
                                                       cost |-> Inf])
                /\ run' = [run EXCEPT !.pc = "done", !.loop = loop]
           ELSE /\ res' = res
                /\ run' = [run EXCEPT !.pc = "loop", !.loop = loop]
    /\ UNCHANGED <<graph, req>>

\* one pass of the loop on the generator's next draw
SeededAnnealStep ==
    /\ req.call = "random" /\ run.pc = "loop"
    /\ LET adjacency == AnnealAdjacency(graph, req.avoid_hazards)
           loop == SeededPass(run.loop, graph, adjacency,
                              RandomDraw(req.seed, run.generator))
       IN  IF loop.iteration < num_iterations
           THEN /\ run' = [run EXCEPT !.loop = loop, !.generator = @ + 1]
                /\ res' = res
           ELSE /\ run' = [run EXCEPT !.pc = "done", !.loop = loop, !.generator = @ + 1]
                /\ res' = AnnealReturned("annealing", AnnealResult(loop, adjacency))
    /\ UNCHANGED <<graph, req>>

\* a draw made by another genetic or annealing solve while this one is in its loop
OtherSolveDraws ==
    /\ req.call = "random" /\ run.pc = "loop" /\ run.other < MaxOtherDraws
    /\ run' = [run EXCEPT !.generator = @ + 1, !.other = @ + 1]
    /\ UNCHANGED <<graph, req, res>>

NextRandom == CallSeededAnnealing \/ SeededAnnealStep \/ OtherSolveDraws

SpecRandom == InitRandom /\ [][NextRandom]_vars

(***************************************************************************)
(* genetic.py: GeneticAlgorithmSolver.solve                                *)
(* None is the empty sequence.  run holds the population between two draws *)
(* of the random module.                                                   *)
(***************************************************************************)
\* the `continue` tests of the loop that fills the adjacency
GeneticEdgeSkipped(g, edge, avoid_hazards) ==
    LET nodes == NodesById(g)
        from_node == nodes[edge.from]
        to_node == nodes[edge.to]
    IN  \/ edge.blocked
        \/ from_node.blocked \/ to_node.blocked
        \/ avoid_hazards /\ (from_node.hazard \/ to_node.hazard \/ edge.hazard)

\* the adjacency: for each node the (to, edge["cost"]) pairs of the edges kept, in
\* edge order
GeneticAdjacency(g, avoid_hazards) ==
    [node_id \in NodeIds(g) |->
        LET out == SelectSeq(g.edges,
                             LAMBDA edge : /\ ~GeneticEdgeSkipped(g, edge, avoid_hazards)
                                           /\ edge.from = node_id)
        IN  [i \in DOMAIN out |-> [to |-> out[i].to, cost |-> out[i].cost]]]

\* the inner loop of path_cost: the cost of the first neighbor entry that matches
\* path[i + 1], Inf after `if not found`
StepCost(adjacency, path, i) ==
    LET nbs == adjacency[path[i]]
        matches == {k \in DOMAIN nbs : nbs[k].to = path[i + 1]}
    IN  IF matches = {} THEN Inf
        ELSE nbs[CHOOSE k \in matches : \A other \in matches : k <= other].cost

\* path_cost of the genetic solver: Inf when some pair has no entry, the sum of the
\* pairs' costs otherwise
genetic_path_cost(adjacency, path) ==
    LET pairs == 1..(Len(path) - 1)
        total[n \in 0..(Len(path) - 1)] ==
            IF n = 0 THEN 0 ELSE total[n - 1] + StepCost(adjacency, path, n)
    IN  IF \E i \in pairs : StepCost(adjacency, path, i) = Inf THEN Inf
        ELSE IF pairs = {} THEN 0 ELSE total[Len(path) - 1]

\* generate_random_path from a pass of its `while current != end and attempts <
\* max_attempts` loop on, and the return after it: the set of what the draws can make
\* it return.  With start == end the loop is not entered and [start] is returned, as
\* by the `if start == end` before it.
RECURSIVE generate_random_path(_, _, _, _, _, _, _)
generate_random_path(adjacency, end, path, current, visited, attempts, max_attempts) ==
    IF current = end THEN {path}
    ELSE IF attempts >= max_attempts THEN {<<>>}
    ELSE LET open == SelectSeq(adjacency[current],
                               LAMBDA nb : nb.to \notin visited \/ nb.to = end)
             neighbors == {open[i].to : i \in DOMAIN open}
         IN  IF neighbors = {} THEN {<<>>}
             ELSE (IF end \in neighbors
                   THEN generate_random_path(adjacency, end, Append(path, end), end,
                                             visited, attempts + 1, max_attempts)
                   ELSE {})
                  \cup UNION {generate_random_path(adjacency, end,
                                                   Append(path, next_node), next_node,
                                                   visited \cup {next_node},
                                                   attempts + 1, max_attempts) :
                                  next_node \in neighbors}

\* the keys sorted and min compute, one path_cost for each path of the population
RECURSIVE PopulationCosts(_, _, _)
PopulationCosts(adjacency, population, n) ==
    IF n = 0 THEN <<>>
    ELSE Append(PopulationCosts(adjacency, population, n - 1),
                genetic_path_cost(adjacency, population[n]))

\* a variant of SortedByCost that leaves the population in the order it has
UnsortedPopulation(population, cost) ==
    [k \in DOMAIN population |-> population[k]]

\* sorted(population, key=path_cost): a stable sort, so a path comes after the
\* cheaper ones and after the ones of its cost that stood before it
SortedByCost(population, cost) ==
    LET before(i) == {j \in DOMAIN population :
                         cost[j] < cost[i] \/ (cost[j] = cost[i] /\ j < i)}
    IN  [k \in DOMAIN population |->
            population[CHOOSE i \in DOMAIN population : Cardinality(before(i)) = k - 1]]

\* a variant of Children whose deletion can also take the last node of the child
ChildrenCutAnywhere(parent1, parent2) ==
    LET shorter == IF Len(parent1) < Len(parent2) THEN Len(parent1) ELSE Len(parent2)
        spliced == {SubSeq(parent1, 1, point) \o SubSeq(parent2, point + 1, Len(parent2)) :
                        point \in 1..(shorter - 1)}
    IN  spliced
        \cup UNION {{RemoveAt(child, idx + 1) : idx \in 1..(Len(child) - 1)} :
                        child \in {c \in spliced : Len(c) > 2}}

\* the children one pass of the refill loop can append for the parents drawn: the
\* splice parent1[:point] + parent2[point:] at every point, left as it is or with one
\* interior node deleted
Children(parent1, parent2) ==
    LET shorter == IF Len(parent1) < Len(parent2) THEN Len(parent1) ELSE Len(parent2)
        spliced == {SubSeq(parent1, 1, point) \o SubSeq(parent2, point + 1, Len(parent2)) :
                        point \in 1..(shorter - 1)}
    IN  spliced
        \cup UNION {{RemoveAt(child, idx + 1) : idx \in 1..(Len(child) - 2)} :
                        child \in {c \in spliced : Len(c) > 2}}

\* min(population, key=path_cost): the first of the least cost
BestOf(population, cost) ==
    population[CHOOSE i \in DOMAIN population :
                  \A j \in DOMAIN population :
                      cost[i] < cost[j] \/ (cost[i] = cost[j] /\ i <= j)]

(***************************************************************************)
(* Genetic solves: the detour graphs of the annealing calls (from 0 to 2   *)
(* and from 2 to 2) and the graph 0->1 (1..MaxCost), 1->3, 0->2, 2->1 from *)
(* 0 to 3, whose two walks differ in length; population_size               *)
(* 1..MaxPopulationSize and generations 1..MaxGenerations.                 *)
(***************************************************************************)
MaxPopulationSize == 3

MaxGenerations == 2

InitGenetic ==
    /\ \E population_size \in 1..MaxPopulationSize, generations \in 1..MaxGenerations,
          avoid_hazards \in BOOLEAN, start \in {0, 2}, end \in {2, 3} :
          /\ \/ /\ end = 2
                /\ \E b \in DetourBlocked : graph = DetourGraph(b, avoid_hazards)
             \/ /\ end = 3 /\ start = 0 /\ ~avoid_hazards
                /\ \E cost1 \in 1..MaxCost :
                      graph = [nodes |-> [i \in 1..4 |-> PlainNode(i - 1)],
                               edges |-> <<PlainEdge(0, 1, cost1), PlainEdge(1, 3, 1),
                                           PlainEdge(0, 2, 1), PlainEdge(2, 1, 1)>>]
          /\ req = [call |-> "genetic", start |-> start, end |-> end,
                    avoid_hazards |-> avoid_hazards, weights |-> DefaultWeights,
                    population_size |-> population_size, generations |-> generations]
    /\ res = NoResult
    \* no population yet; pass is the parity of the passes made by the refill loops
    /\ run = [pc |-> "idle", population |-> <<>>, initial |-> <<>>, made |-> 0,
              generation |-> 0, pass |-> 0]

GeneticReturned(path, cost) ==
    [NoResult EXCEPT !.alg = "genetic", !.path = path, !.cost = cost, !.built = TRUE]

\* solve up to the loop that fills the population, or to its return on a blocked
\* start or end
CallGeneticSolve ==
    /\ req.call = "genetic" /\ run.pc = "idle"
    /\ IF EndpointBlocked(graph, req.start) \/ EndpointBlocked(graph, req.end)
       THEN /\ res' = [GeneticReturned(<<req.start, req.end>>, Inf) EXCEPT
                          !.built = FALSE]
            /\ run' = [run EXCEPT !.pc = "done"]
       ELSE /\ res' = res
            /\ run' = [run EXCEPT !.pc = "populate"]
    /\ UNCHANGED <<graph, req>>

\* one pass of `for _ in range(self.population_size)`; after the last one the
\* `if not population` return
GenerateRandomPath ==
    /\ req.call = "genetic" /\ run.pc = "populate"
    /\ \E path \in generate_random_path(GeneticAdjacency(graph, req.avoid_hazards),
                                        req.end, <<req.start>>, req.start, {req.start},
                                        0, Cardinality(NodeIds(graph)) * 2) :
          LET population == IF path # <<>> THEN Append(run.population, path)
                            ELSE run.population
          IN  IF run.made + 1 < req.population_size
              THEN /\ run' = [run EXCEPT !.population = population, !.made = @ + 1]
                   /\ res' = res
              ELSE IF population = <<>>
                   THEN /\ run' = [run EXCEPT !.pc = "done", !.made = @ + 1]
                        /\ res' = GeneticReturned(<<req.start, req.end>>, Inf)
                   ELSE /\ run' = [run EXCEPT !.pc = "generation",
                                              !.population = population,
                                              !.initial = population,
                                              !.made = @ + 1]
                        /\ res' = res
    /\ UNCHANGED <<graph, req>>

\* the head of a generation: the sort and the slice
SortPopulation ==
    /\ req.call = "genetic" /\ run.pc = "generation"
    /\ run.generation < req.generations
    /\ \E cost \in {PopulationCosts(GeneticAdjacency(graph, req.avoid_hazards),
                                    run.population, Len(run.population))} :
          LET sorted == SortedByCost(run.population, cost)
              kept == req.population_size \div 2
          IN  run' = [run EXCEPT
                         !.pc = "refill",
                         !.population = SubSeq(sorted, 1, IF kept < Len(sorted) THEN kept
                                                          ELSE Len(sorted))]
    /\ UNCHANGED <<graph, req, res>>

\* the test of `while len(population) < self.population_size` and, when it passes,
\* one pass of the loop: random.choice of an empty population raises IndexError,
\* parents of one node add nothing
RefillPass ==
    /\ req.call = "genetic" /\ run.pc = "refill"
    /\ IF Len(run.population) >= req.population_size
       THEN /\ run' = [run EXCEPT !.pc = "generation", !.generation = @ + 1]
            /\ res' = res
       ELSE IF run.population = <<>>
       THEN /\ run' = [run EXCEPT !.pc = "done"]
            /\ res' = [NoResult EXCEPT !.alg = "genetic", !.built = TRUE,
                                       !.raised = "IndexError"]
       ELSE \E i \in DOMAIN run.population, j \in DOMAIN run.population :
               LET parent1 == run.population[i]
                   parent2 == run.population[j]
               IN  IF Len(parent1) > 1 /\ Len(parent2) > 1
                   THEN \E child \in Children(parent1, parent2) :
                           /\ run' = [run EXCEPT !.population = Append(@, child),
                                                 !.pass = 1 - @]
                           /\ res' = res
                   ELSE /\ run' = [run EXCEPT !.pass = 1 - @]
                        /\ res' = res
    /\ UNCHANGED <<graph, req>>

\* after the last generation: best_path, best_cost
ReturnBest ==
    /\ req.call = "genetic" /\ run.pc = "generation"
    /\ run.generation >= req.generations
    /\ \E cost \in {PopulationCosts(GeneticAdjacency(graph, req.avoid_hazards),
                                    run.population, Len(run.population))} :
          \E best_path \in {BestOf(run.population, cost)} :
             res' = GeneticReturned(best_path,
                                    genetic_path_cost(GeneticAdjacency(graph,
                                                                       req.avoid_hazards),
                                                      best_path))
    /\ run' = [run EXCEPT !.pc = "done"]
    /\ UNCHANGED <<graph, req>>

NextGenetic ==
    CallGeneticSolve \/ GenerateRandomPath \/ SortPopulation \/ RefillPass \/ ReturnBest

SpecGenetic == InitGenetic /\ [][NextGenetic]_vars

\* the solve is not held up for ever between two of its steps
SpecGeneticFair == SpecGenetic /\ WF_vars(NextGenetic)

(***************************************************************************)
(* The two solvers that draw from the random module, side by side: the     *)
(* genetic solves above and the annealing calls of the detour graphs.      *)
(***************************************************************************)
InitHeuristic ==
    \/ InitGenetic
    \/ /\ InitAnnealing \/ InitShortcut
       /\ res = NoResult
       /\ run = Idle

NextHeuristic == NextGenetic \/ CallAnnealing \/ AnnealStep

SpecHeuristic == InitHeuristic /\ [][NextHeuristic]_vars

(***************************************************************************)
(* What the claims speak of: the filtered adjacency of the request, walks  *)
(* in it and the least cost of a walk.                                     *)
(***************************************************************************)
Adj == build_adjacency(graph, req.avoid_hazards, req.weights)

Unblocked(id) == ~NodesById(graph)[id].blocked

\* the costs of adjacency's edges from u to v
EdgeCostsIn(adjacency, u, v) ==
    {adjacency[u][i].cost : i \in {j \in DOMAIN adjacency[u] : adjacency[u][j].to = v}}

EdgeCosts(u, v) == EdgeCostsIn(Adj, u, v)

IsWalk(path) ==
    \A i \in 1..(Len(path) - 1) : EdgeCosts(path[i], path[i + 1]) # {}

\* the sums of edge costs along the consecutive pairs of path
RECURSIVE WalkCosts(_)
WalkCosts(path) ==
    IF Len(path) <= 1 THEN {0}
    ELSE {c + d : c \in EdgeCosts(path[1], path[2]), d \in WalkCosts(Tail(path))}

SetMin(S) == CHOOSE x \in S : \A y \in S : x <= y

\* One round of simultaneous relaxation of the pairs (node, least cost found so far).
SettleRound(adjacency, found) ==
    {<<p[1], SetMin({p[2]} \cup
                    UNION {{q[2] + c : c \in EdgeCostsIn(adjacency, q[1], p[1])} :
                               q \in {r \in found : r[2] # Inf}})>> : p \in found}

RECURSIVE Settle(_, _, _)
Settle(adjacency, found, rounds) ==
    IF rounds = 0 THEN found
    ELSE Settle(adjacency, SettleRound(adjacency, found), rounds - 1)

\* the least cost of a walk from start to end in the filtered adjacency (Inf if none)
MinDist(start, end) ==
    LET found == Settle(Adj, {<<v, IF v = start THEN 0 ELSE Inf>> : v \in NodeIds(graph)},
                        Cardinality(NodeIds(graph)))
    IN  (CHOOSE p \in found : p[1] = end)[2]

\* the nodes some walk of at most `rounds` edges reaches from a node of `from`
RECURSIVE ReachedFrom(_, _, _)
ReachedFrom(adjacency, from, rounds) ==
    IF rounds = 0 THEN from
    ELSE ReachedFrom(adjacency,
                     from \cup UNION {{adjacency[u][i].to : i \in DOMAIN adjacency[u]} :
                                         u \in from},
                     rounds - 1)

\* end can be reached from start in the filtered adjacency, neither being filtered out
Reachable ==
    /\ Unblocked(req.start) /\ Unblocked(req.end)
    /\ req.end \in ReachedFrom(Adj, {req.start}, Cardinality(NodeIds(graph)))

ExactSolvers == {"dijkstra", "astar", "dynamic_programming"}

\* C1: for non-negative edge costs and end reachable from start in the filtered
\* adjacency, dijkstra returns a path from start to end along edges of the filtered
\* adjacency whose returned cost is the sum of those edge costs and the least cost of
\* any start-to-end walk.
C1_DijkstraShortestPath ==
    (res.alg = "dijkstra" /\ Reachable) =>
        /\ res.path # <<>>
        /\ res.path[1] = req.start
        /\ res.path[Len(res.path)] = req.end
        /\ IsWalk(res.path)
        /\ res.cost \in WalkCosts(res.path)
        /\ res.cost = MinDist(req.start, req.end)

\* the scenario of C1: 0->1 (2), 0->2 (1), 1->3 (2), 2->3 (4) gives [0, 1, 3] at cost 4
C1_Witness ==
    /\ res.alg = "dijkstra"
    /\ req.start = 0 /\ req.end = 3
    /\ Adj = [n \in 0..3 |->
                CASE n = 0 -> <<[to |-> 1, cost |-> 2], [to |-> 2, cost |-> 1]>>
                  [] n = 1 -> <<[to |-> 3, cost |-> 2]>>
                  [] n = 2 -> <<[to |-> 3, cost |-> 4]>>
                  [] OTHER -> <<>>]
    /\ res.path = <<0, 1, 3>> /\ res.cost = 4

\* C2: for non-negative edge costs, cycles included, and end reachable, dijkstra and
\* dynamic_programming return the same cost on the same graph, flag and weights.
C2_DijkstraEqualsDp ==
    /\ (res.alg = "dijkstra" /\ Reachable) =>
          res.cost = dynamic_programming(req.start, req.end, graph,
                                         req.avoid_hazards, req.weights).cost
    /\ (res.alg = "dynamic_programming" /\ Reachable) =>
          res.cost = dijkstra(req.start, req.end, graph,
                              req.avoid_hazards, req.weights).cost

\* a dynamic_programming result over a cycle, three edges away from the start
C2_Witness ==
    /\ res.alg = "dynamic_programming"
    /\ Reachable
    /\ Len(res.path) = 4
    /\ \E i \in DOMAIN graph.edges : graph.edges[i].to = req.start
    /\ res.cost > 0

\* the solvers that return a path and its cost
RoutingSolvers == ExactSolvers \cup {"annealing"}

\* C3: no solver ever returns, with finite cost, a path that contains a node whose
\* blocked flag is set or that traverses an edge whose blocked flag is set, whatever
\* the weights and the avoid_hazards flag.
C3_NoBlockedOnPath ==
    (res.alg \in RoutingSolvers /\ res.raised = "none" /\ res.cost # Inf) =>
        /\ \A i \in DOMAIN res.path : ~NodesById(graph)[res.path[i]].blocked
        /\ \A i \in 1..(Len(res.path) - 1) :
              \E k \in DOMAIN graph.edges :
                  /\ graph.edges[k].from = res.path[i]
                  /\ graph.edges[k].to = res.path[i + 1]
                  /\ ~graph.edges[k].blocked

\* C4: called with avoid_hazards = true, no solver returns with finite cost a path that
\* contains a hazard-flagged node or traverses a hazard-flagged edge, for every start
\* and end, a hazard-flagged start or end included.
C4_NoHazardOnPath ==
    (res.alg # "none" /\ req.avoid_hazards /\ res.cost # Inf) =>
        /\ \A i \in DOMAIN res.path : ~NodesById(graph)[res.path[i]].hazard
        /\ \A i \in 1..(Len(res.path) - 1) :
              \E k \in DOMAIN graph.edges :
                  /\ graph.edges[k].from = res.path[i]
                  /\ graph.edges[k].to = res.path[i + 1]
                  /\ ~graph.edges[k].hazard

\* C5: with start and end unblocked and different and end not reachable, dijkstra, astar
\* and dynamic_programming each return the sentinel [start, end] at cost +infinity with
\* evaluated_states counting the work done (queue pops, relaxation attempts).
C5_NoPathSentinel ==
    (/\ res.alg \in ExactSolvers
     /\ Unblocked(req.start) /\ Unblocked(req.end)
     /\ req.start # req.end
     /\ ~Reachable) =>
        /\ res.path = <<req.start, req.end>>
        /\ res.cost = Inf
        /\ res.evaluated_states = Len(res.pops)

\* C6: with the start or the end node blocked, dijkstra, astar and dynamic_programming
\* each return exactly ([start, end], +infinity, 0), no adjacency built and no search
\* step made.
C6_BlockedEndpointSentinel ==
    (res.alg \in ExactSolvers /\ (~Unblocked(req.start) \/ ~Unblocked(req.end))) =>
        /\ res.path = <<req.start, req.end>>
        /\ res.cost = Inf
        /\ res.evaluated_states = 0
        /\ res.pops = <<>>
        /\ ~res.built

\* astar called with only the end blocked, while an edge leads from start to end
C6_Witness ==
    /\ res.alg = "astar"
    /\ Unblocked(req.start) /\ ~Unblocked(req.end)
    /\ \E k \in DOMAIN graph.edges :
          graph.edges[k].from = req.start /\ graph.edges[k].to = req.end
    /\ res.path = <<req.start, req.end>>

\* two f_scores are the same number
FEqual(f1, f2) == ~FLess(f1, f2) /\ ~FLess(f2, f1)

\* C7: in dijkstra and in astar, of two queue entries of equal priority the one pushed
\* earlier is popped first (FIFO among ties, by insertion counter).
C7_FifoAmongTies ==
    /\ res.alg = "dijkstra" =>
          \A k \in DOMAIN res.pops :
              \A j \in 1..(res.pops[k].taken - 1) :
                  res.pops[k].queue[j][1] # res.pops[k].queue[res.pops[k].taken][1]
    /\ res.alg = "astar" =>
          \A k \in DOMAIN res.pops :
              \A j \in 1..(res.pops[k].taken - 1) :
                  ~FEqual(res.pops[k].queue[j].f, res.pops[k].queue[res.pops[k].taken].f)

\* every edge costs 1 and the weights are distance_weight = 1 with the others 0
UnitCostRequest ==
    /\ \A k \in DOMAIN graph.edges : graph.edges[k].cost = 1
    /\ req.weights = DefaultWeights

EdgesNoLongerThanCost ==
    \A k \in DOMAIN graph.edges :
        LET a == NodesById(graph)[graph.edges[k].from]
            b == NodesById(graph)[graph.edges[k].to]
        IN  (a.x - b.x) * (a.x - b.x) + (a.y - b.y) * (a.y - b.y) <= 1

ConstrainedResult ==
    res.alg \in {"solve_constrained", "solve_hard_constraints"} /\ res.raised = "none"

\* C9: in a constrained solve (solve_constrained on the QAOA branch and on the
\* annealing branch, the classical branch of solve_hard_constraints) the reported
\* is_valid is true if and only if the returned path has no capacity violation, no
\* time-window violation and no total-time violation.
C9_IsValidIffNoViolation ==
    ConstrainedResult =>
        LET found == validate_solution(graph, req.config, req.zone_metadata,
                                       res.path, res.cost).violations
        IN  res.info.is_valid <=>
                (found.capacity = <<>> /\ found.time_window = <<>> /\ ~found.total_time)

\* C10: in every result of a constrained solve the returned cost is the sum of the
\* path's edge costs and adjusted_cost is the returned cost plus the returned penalty.
C10_AdjustedCostIsCostPlusPenalty ==
    ConstrainedResult =>
        /\ res.cost # Inf => res.cost = EdgeDataCost(graph, res.path)
        /\ res.info.adjusted_cost = Plus(res.cost, res.info.penalty)

\* C12: the cost the annealing solver returns after its loop is never greater than
\* the cost of the initial breadth-first path (which is among the paths the claim has
\* it return the cheapest of).
C12_NeverAboveInitialPath ==
    (res.alg = "annealing" /\ res.raised = "none" /\ run.loop.initial_path # <<>>) =>
        res.cost <= path_cost(AnnealAdjacency(graph, req.avoid_hazards),
                              run.loop.initial_path)

\* what dijkstra returns for the request on the graph g
SolveOn(g) == dijkstra(req.start, req.end, g, req.avoid_hazards, req.weights)

\* C13: a solve that runs while update_hazards, update_constraints or update_graph
\* writes the graph returns the path and the cost it returns on the graph as it was
\* before the endpoint was called or on the graph as it is after the endpoint's last
\* write, never those of a graph in between.
C13_BeforeOrAfterMutation ==
    (req.call = "concurrent" /\ res.alg = "dijkstra") =>
        \E g \in {req.before, WriteAll(req.before, EndpointWrites(req.update))} :
            res.path = SolveOn(g).path /\ res.cost = SolveOn(g).cost

\* C15: a solve entered after update_constraints has made its last write returns no
\* finite-cost path that contains a node of blocked_nodes or walks an edge of
\* blocked_edges, with avoid_hazards true or false.
C15_BlockedStaysOffPaths ==
    (/\ req.call = "concurrent" /\ req.update.kind = "update_constraints"
     /\ res.alg = "dijkstra" /\ res.cost # Inf
     /\ run.entered_after = Len(EndpointWrites(req.update))) =>
        /\ \A i \in DOMAIN res.path, j \in DOMAIN req.update.blocked_nodes :
               res.path[i] # req.update.blocked_nodes[j]
        /\ \A i \in 1..(Len(res.path) - 1), j \in DOMAIN req.update.blocked_edges :
               ~(/\ res.path[i] = req.update.blocked_edges[j].from_node
                 /\ res.path[i + 1] = req.update.blocked_edges[j].to)

\* what the seeded solve returns when no other solve draws
SolvedAlone ==
    LET adjacency == AnnealAdjacency(graph, req.avoid_hazards)
    IN  AnnealResult(SeededLoop(AnnealEnter(req.start, req.end, graph, req.avoid_hazards),
                                graph, adjacency, req.seed, 0),
                     adjacency)

\* C14: the path and the cost an annealing solve returns under a seed are those it
\* returns under that seed when no other solve draws random numbers, however the
\* draws of another solve fall between its own.
C14_NoInterference ==
    (req.call = "random" /\ res.alg = "annealing" /\ run.loop.initial_path # <<>>) =>
        res.path = SolvedAlone.path /\ res.cost = SolvedAlone.cost

(***************************************************************************)
(* The validator and the router, stated from the graph and the request.    *)
(***************************************************************************)
NodeOf(id) == graph.nodes[CHOOSE i \in DOMAIN graph.nodes : graph.nodes[i].id = id]

\* f[1] + ... + f[n]
RECURSIVE SumTo(_, _)
SumTo(f, n) == IF n = 0 THEN 0 ELSE f[n] + SumTo(f, n - 1)

PathLoad(path) == SumTo([i \in DOMAIN path |-> NodeOf(path[i]).population], Len(path))

Min2(a, b) == IF a < b THEN a ELSE b

Max2(a, b) == IF a > b THEN a ELSE b

RECURSIVE Routes(_)
Routes(vehicles) ==
    IF vehicles = <<>> THEN <<>> ELSE Head(vehicles).route \o Routes(Tail(vehicles))

\* C11: plan_multi_vehicle_routes fills at most num_vehicles vehicles with the nodes
\* of the path in order, and the population of the nodes of the path that no vehicle
\* took is what is reported as population_left.
C11_PopulationLeftIsUnassigned ==
    res.alg = "plan_multi_vehicle_routes" =>
        LET assigned == Routes(res.vehicles)
        IN  /\ Len(res.vehicles) <= req.config.num_vehicles
            /\ assigned = SubSeq(res.path, 1, Len(assigned))
            /\ res.info.violations.population_left
                   = PathLoad(SubSeq(res.path, Len(assigned) + 1, Len(res.path)))

\* C16: validate_solution sums the population over the nodes of the path, visit by
\* visit; it records one capacity violation with overflow = total - vehicle_capacity
\* when the total is above vehicle_capacity and none otherwise, population_served is
\* min(total, vehicle_capacity), population_left is max(0, total - vehicle_capacity),
\* and the two add up to the total.
C16_CapacityAccounting ==
    res.alg = "validate_solution" =>
        LET total == PathLoad(res.path)
            vehicle_capacity == req.config.vehicle_capacity
            found == res.info.violations
        IN  /\ found.capacity
                   = IF total > vehicle_capacity
                     THEN <<[population |-> total, capacity |-> vehicle_capacity,
                             overflow |-> total - vehicle_capacity]>>
                     ELSE <<>>
            /\ found.population_served = Min2(total, vehicle_capacity)
            /\ found.population_left = Max2(0, total - vehicle_capacity)
            /\ found.population_served + found.population_left = total

\* C16 witness: a path of three visits, one node visited twice, whose total is one
\* above the capacity: served is the capacity, one is left, the overflow is one.
C16_Witness ==
    /\ res.alg = "validate_solution"
    /\ Len(res.path) = 3 /\ res.path[1] = res.path[3] /\ res.path[1] # res.path[2]
    /\ NodeOf(res.path[1]).population > 0
    /\ res.info.violations.capacity # <<>>
    /\ res.info.violations.capacity[1].overflow = 1
    /\ res.info.violations.population_served = req.config.vehicle_capacity
    /\ res.info.violations.population_left = 1

IsEdgeWalk(path) ==
    \A i \in 1..(Len(path) - 1) :
        \E k \in DOMAIN graph.edges :
            graph.edges[k].from = path[i] /\ graph.edges[k].to = path[i + 1]

EdgeCostOf(u, v) ==
    graph.edges[CHOOSE k \in DOMAIN graph.edges :
                    graph.edges[k].from = u /\ graph.edges[k].to = v].cost

\* the cost of the edges path[1] -> path[2], ..., path[i - 1] -> path[i]
ArrivalTime(path, i) ==
    SumTo([k \in 1..(i - 1) |-> EdgeCostOf(path[k], path[k + 1])], i - 1)

\* the window of the node's zone; a zone the table does not list has the window
\* [0, 999]
ZoneWindow(id) ==
    IF NodeOf(id).zone \in DOMAIN req.zone_metadata
    THEN req.zone_metadata[NodeOf(id).zone].time_window
    ELSE [min |-> 0, max |-> 999]

OutsideWindow(path, i) ==
    \/ ArrivalTime(path, i) < ZoneWindow(path[i]).min
    \/ ArrivalTime(path, i) > ZoneWindow(path[i]).max

\* C17: on a path that follows edges of the graph, validate_solution records a
\* time-window violation for exactly the visits whose arrival time, the sum of the
\* costs of the edges walked so far, is below the min or above the max of the window
\* of the node's zone; the violations come in path order and carry the node, its
\* zone, the arrival time and the window.
C17_TimeWindowViolations ==
    (res.alg = "validate_solution" /\ IsEdgeWalk(res.path)) =>
        LET late == SelectSeq([i \in DOMAIN res.path |-> i],
                              LAMBDA i : OutsideWindow(res.path, i))
        IN  /\ Len(res.info.violations.time_window) = Len(late)
            /\ \A j \in DOMAIN late :
                   res.info.violations.time_window[j]
                       = [node |-> res.path[late[j]],
                          zone |-> NodeOf(res.path[late[j]]).zone,
                          arrival_time |-> ArrivalTime(res.path, late[j]),
                          window |-> ZoneWindow(res.path[late[j]])]

\* C17 witness: a walk of three visits with one arrival below its window's min, one
\* above its window's max and one inside its window.
C17_Witness ==
    /\ res.alg = "validate_solution" /\ IsEdgeWalk(res.path) /\ Len(res.path) = 3
    /\ Len(res.info.violations.time_window) = 2
    /\ \E i, j \in DOMAIN res.info.violations.time_window :
          /\ res.info.violations.time_window[i].arrival_time
                 < res.info.violations.time_window[i].window.min
          /\ res.info.violations.time_window[j].arrival_time
                 > res.info.violations.time_window[j].window.max

\* C18: calculate_penalty returns 10 times the overflow of every capacity violation,
\* plus 20 times the smaller of |arrival_time - window.min| and
\* |arrival_time - window.max| of every time-window violation, plus 500 when the
\* total-time flag is set.
C18_PenaltySum ==
    res.alg = "calculate_penalty" =>
        LET found == res.info.violations
            capacity == [i \in DOMAIN found.capacity |-> 10 * found.capacity[i].overflow]
            time_window ==
                [i \in DOMAIN found.time_window |->
                    20 * Min2(Abs(found.time_window[i].arrival_time
                                  - found.time_window[i].window.min),
                              Abs(found.time_window[i].arrival_time
                                  - found.time_window[i].window.max))]
        IN  res.info.penalty = SumTo(capacity, Len(found.capacity))
                               + SumTo(time_window, Len(found.time_window))
                               + (IF found.total_time THEN 500 ELSE 0)

\* C18 witness: a penalty over two capacity violations, a time-window violation above
\* the window's max and a set total-time flag.
C18_Witness ==
    /\ res.alg = "calculate_penalty"
    /\ Len(res.info.violations.capacity) = 2
    /\ \E i \in DOMAIN res.info.violations.time_window :
          res.info.violations.time_window[i].arrival_time
              > res.info.violations.time_window[i].window.max
    /\ res.info.violations.total_time
    /\ res.info.penalty > 500

\* end is not among the nodes the annealing solver's adjacency reaches from start
AnnealUnreachable ==
    req.end \notin ReachedFrom(AnnealAdjacency(graph, req.avoid_hazards), {req.start},
                               Cardinality(NodeIds(graph)))

\* C20: when end is not reachable from start in the annealing solver's adjacency,
\* _quantum_annealing_simulation returns ([start, end], +infinity) right after the
\* breadth-first search: the loop is never entered, no pass is made and nothing is
\* drawn from the random module (every draw is made inside a pass).
C20_UnreachableReturnsSentinel ==
    (req.call = "route" /\ AnnealUnreachable) =>
        /\ run.pc # "loop"
        /\ res.alg = "annealing" =>
              /\ res.raised = "none"
              /\ res.path = <<req.start, req.end>>
              /\ res.cost = Inf
              /\ run.pc = "done"
              /\ run.loop.initial_path = <<>>
              /\ run.loop.iteration = 0
              /\ run.loop.cooled = 0

\* C20: the annealing solver has returned on a call whose end no walk reaches from a
\* different start
C20_Witness ==
    /\ req.call = "route" /\ res.alg = "annealing"
    /\ req.start # req.end
    /\ AnnealUnreachable

\* the weighted cost calculate_edge_cost gives the k-th edge of g
WeightedCost(g, weights, k) ==
    calculate_edge_cost(g.edges[k], NodesById(g)[g.edges[k].from],
                        NodesById(g)[g.edges[k].to], weights)

\* the square of the Euclidean distance between the nodes a and b of g
SquaredDistance(g, a, b) ==
    LET na == NodesById(g)[a]
        nb == NodesById(g)[b]
    IN  (na.x - nb.x) * (na.x - nb.x) + (na.y - nb.y) * (na.y - nb.y)

\* the risk term raises every edge above its base cost: a risk multiplier > 1
EveryEdgeInflated ==
    \A k \in DOMAIN graph.edges :
        WeightedCost(graph, req.weights, k)
            > req.weights.distance_weight * graph.edges[k].cost

\* Every edge is inflated by the risk term; the routes from 0 to 4 are 0->1->3->4 of
\* weighted cost 2 + 2 + 2 and 0->2->4 of weighted cost 3 + 2 (and 0->2->3->4 where
\* the edge 2->3 is there); nodes 1 and 3 lie within 2 of the end and node 2 lies
\* farther than 3 from it.
RiskInflatedDetour ==
    /\ req.call = "route" /\ req.weights = RiskWeights
    /\ req.start = 0 /\ req.end = 4
    /\ Len(graph.nodes) = 5
    /\ EveryEdgeInflated
    /\ \A k \in DOMAIN graph.edges :
          /\ graph.edges[k].to = 4 => graph.edges[k].from \in {2, 3}
          /\ graph.edges[k].cost = 1
    /\ <<NodesById(graph)[0].risk_level, NodesById(graph)[1].risk_level,
          NodesById(graph)[2].risk_level, NodesById(graph)[3].risk_level,
          NodesById(graph)[4].risk_level>> = <<2, 0, 2, 2, 0>>
    /\ SquaredDistance(graph, 1, 4) <= 4
    /\ SquaredDistance(graph, 3, 4) <= 4
    /\ SquaredDistance(graph, 2, 4) > 9

C23_CoolsEveryIteration ==
    (run.pc \in {"loop", "done"} /\ run.loop.initial_path # <<>>) =>
        run.loop.cooled = run.loop.iteration

\* C30: when start = end and that node is not blocked, dijkstra, astar,
\* dynamic_programming and the annealing solver each return the single-node path
\* [start] with cost 0 and raise nothing, whatever is drawn.
C30_StartIsEnd ==
    (/\ req.call = "route"
     /\ res.alg \in {"dijkstra", "astar", "dynamic_programming", "annealing"}
     /\ req.start = req.end
     /\ ~EndpointBlocked(graph, req.start)) =>
        /\ res.raised = "none"
        /\ res.path = <<req.start>>
        /\ res.cost = 0

\* C28: for non-negative edge costs, any coordinates and unblocked start and end,
\* astar returns a finite cost exactly when dijkstra does, and when both are finite the
\* cost astar returns is at least the cost dijkstra returns and is the summed edge cost
\* of the path astar returns, a walk of the filtered adjacency from start to end.
C28_AstarAgainstDijkstra ==
    (/\ req.call = "route" /\ res.alg = "astar"
     /\ Unblocked(req.start) /\ Unblocked(req.end)) =>
        LET dijkstra_cost == dijkstra(req.start, req.end, graph, req.avoid_hazards,
                                      req.weights).cost
        IN  /\ res.cost < Inf <=> dijkstra_cost < Inf
            /\ res.cost < Inf =>
                  /\ res.cost >= dijkstra_cost
                  /\ res.path[1] = req.start
                  /\ res.path[Len(res.path)] = req.end
                  /\ IsWalk(res.path)
                  /\ res.cost \in WalkCosts(res.path)

\* astar has returned a finite cost above the cost dijkstra returns
C28_Witness ==
    /\ req.call = "route" /\ res.alg = "astar"
    /\ Unblocked(req.start) /\ Unblocked(req.end)
    /\ res.cost < Inf
    /\ Len(res.path) >= 3
    /\ res.cost > dijkstra(req.start, req.end, graph, req.avoid_hazards, req.weights).cost

\* the positions in graph.edges of the edges leaving node n that are not blocked,
\* whose two endpoints are not blocked and, under avoid_hazards, that are not
\* hazard-flagged and have no hazard-flagged endpoint
KeptEdgesFrom(n) ==
    {k \in DOMAIN graph.edges :
        /\ graph.edges[k].from = n
        /\ ~graph.edges[k].blocked
        /\ ~NodesById(graph)[graph.edges[k].from].blocked
        /\ ~NodesById(graph)[graph.edges[k].to].blocked
        /\ req.avoid_hazards =>
              /\ ~graph.edges[k].hazard
              /\ ~NodesById(graph)[graph.edges[k].from].hazard
              /\ ~NodesById(graph)[graph.edges[k].to].hazard}

\* their (to, cost) pairs in the order of graph.edges
ExpectedNeighbors(n) ==
    [i \in 1..Cardinality(KeptEdgesFrom(n)) |->
        LET k == CHOOSE k \in KeptEdgesFrom(n) :
                     Cardinality({j \in KeptEdgesFrom(n) : j < k}) = i - 1
        IN  [to |-> graph.edges[k].to, cost |-> WeightedCost(graph, req.weights, k)]]

\* C22: build_adjacency returns, for every node id, the (to, cost) pairs of exactly
\* the edges leaving that node that are not blocked, whose endpoints are not blocked
\* and (under avoid_hazards) that touch no hazard flag, in the order of the input edge
\* sequence; the adjacency astar and dynamic_programming build inline holds the same
\* pairs in the same order.
C22_AdjacencyInEdgeOrder ==
    (req.call = "route" /\ res.built) =>
        /\ DOMAIN Adj = NodeIds(graph)
        /\ \A n \in NodeIds(graph) :
              /\ Adj[n] = ExpectedNeighbors(n)
              /\ AdjacencyGet(InlineAdjacency(graph, req.avoid_hazards, req.weights), n)
                   = ExpectedNeighbors(n)

\* an adjacency built from a graph in which a node keeps two edges and loses one
C22_Witness ==
    /\ req.call = "route" /\ res.built
    /\ res.alg \in ExactSolvers
    /\ \E n \in NodeIds(graph) :
          /\ Len(Adj[n]) >= 2
          /\ Adj[n][1].to # Adj[n][2].to
    /\ \E n \in NodeIds(graph) :
          Cardinality({k \in DOMAIN graph.edges : graph.edges[k].from = n}) > Len(Adj[n])

\* what a call of the solver res.alg on the inputs of the state returns
CalledAgain ==
    IF res.alg = "dijkstra"
    THEN dijkstra(req.start, req.end, graph, req.avoid_hazards, req.weights)
    ELSE IF res.alg = "astar"
         THEN astar(req.start, req.end, graph, req.avoid_hazards, req.weights)
         ELSE dynamic_programming(req.start, req.end, graph, req.avoid_hazards,
                                  req.weights)

\* every heappop of the call had one outcome: the tuple taken is below every other
\* tuple of the queue in Python's order, or is the same tuple
PopsDetermined ==
    /\ res.alg = "dijkstra" =>
          \A k \in DOMAIN res.pops :
              \A j \in DOMAIN res.pops[k].queue :
                  \/ res.pops[k].queue[j] = res.pops[k].queue[res.pops[k].taken]
                  \/ DijkstraEntryLess(res.pops[k].queue[res.pops[k].taken],
                                       res.pops[k].queue[j])
    /\ res.alg = "astar" =>
          \A k \in DOMAIN res.pops :
              \A j \in DOMAIN res.pops[k].queue :
                  \/ j = res.pops[k].taken
                  \/ AstarEntryLess(res.pops[k].queue[res.pops[k].taken],
                                    res.pops[k].queue[j])

C26_VehiclesWithinCapacity ==
    res.alg = "plan_multi_vehicle_routes" =>
        /\ \A v \in DOMAIN res.vehicles :
              res.vehicles[v].population <= req.config.vehicle_capacity
        /\ Len(res.vehicles) <= req.config.num_vehicles
        /\ Len(Routes(res.vehicles)) <= Len(res.path)
        /\ Routes(res.vehicles) = SubSeq(res.path, 1, Len(Routes(res.vehicles)))

\* C27: with every zone's time window having min <= max, the penalty calculate_penalty
\* computes from the violations of validate_solution is 0 if and only if
\* validate_solution reports is_valid = true, and is strictly positive otherwise.
C27_PenaltyZeroIffValid ==
    (/\ req.call = "validate"
     /\ res.alg \in {"calculate_penalty", "plan_multi_vehicle_routes"}
     /\ \A zone \in DOMAIN req.zone_metadata :
           req.zone_metadata[zone].time_window.min
               <= req.zone_metadata[zone].time_window.max) =>
        /\ res.info.penalty = 0 <=> res.info.is_valid
        /\ ~res.info.is_valid => res.info.penalty > 0

\* a penalty computed for a path whose only violations are time-window violations
C27_Witness ==
    /\ req.call = "validate" /\ res.alg = "calculate_penalty"
    /\ ~res.info.is_valid
    /\ res.info.violations.capacity = <<>>
    /\ ~res.info.violations.total_time
    /\ res.info.violations.time_window # <<>>
    /\ res.info.penalty > 0

\* C24: a genetic solve whose start and end are not blocked comes to its return,
\* without raising, after exactly `generations` generations when some walk of the
\* initial population reached the end
C24_Terminates ==
    (req.call = "genetic" /\ ~EndpointBlocked(graph, req.start)
                          /\ ~EndpointBlocked(graph, req.end)) =>
        <>(/\ run.pc = "done"
           /\ res.raised = "none"
           /\ run.initial # <<>> => run.generation = req.generations)

\* the least path_cost of a population of the request
LeastCost(population) ==
    LET adjacency == GeneticAdjacency(graph, req.avoid_hazards)
        costs == {genetic_path_cost(adjacency, population[i]) : i \in DOMAIN population}
    IN  CHOOSE least \in costs : \A cost \in costs : least <= cost

\* some consecutive pair of the path is not joined by an edge of the genetic adjacency
Disconnected(path) ==
    LET adjacency == GeneticAdjacency(graph, req.avoid_hazards)
    IN  \E i \in 1..(Len(path) - 1) :
           \A k \in DOMAIN adjacency[path[i]] : adjacency[path[i]][k].to # path[i + 1]

\* a genetic solve of population_size >= 2 whose initial population is complete and
\* not empty
Breeding ==
    /\ req.call = "genetic" /\ req.population_size >= 2
    /\ run.initial # <<>>

\* C25: in a genetic solve of population_size >= 2 with a non-empty initial population no
\* step of the generations raises the least path cost of the population, a path with a
\* pair that no edge joins costs Inf, and the path returned has no such pair and a
\* finite cost that is at most the cost of every walk of the initial population
C25_BestNeverWorse ==
    /\ [][(Breeding /\ run.pc \in {"generation", "refill"}) =>
              LeastCost(run'.population) <= LeastCost(run.population)]_vars
    /\ [](Breeding =>
              /\ \A i \in DOMAIN run.population :
                    Disconnected(run.population[i]) =>
                        genetic_path_cost(GeneticAdjacency(graph, req.avoid_hazards),
                                          run.population[i]) = Inf
              /\ (run.pc = "done" /\ res.raised = "none") =>
                    /\ res.cost < Inf
                    /\ ~Disconnected(res.path)
                    /\ res.cost = genetic_path_cost(GeneticAdjacency(graph,
                                                                     req.avoid_hazards),
                                                    res.path)
                    /\ \A i \in DOMAIN run.initial :
                          res.cost <= genetic_path_cost(GeneticAdjacency(graph,
                                                                         req.avoid_hazards),
                                                        run.initial[i]))

\* C25 witness: a solve has returned a path cheaper than every walk of its initial
\* population, from a last population that holds a child with a pair no edge joins
C25_Witness ==
    /\ Breeding /\ run.pc = "done" /\ res.raised = "none"
    /\ res.cost < LeastCost(run.initial)
    /\ \E i \in DOMAIN run.population : Disconnected(run.population[i])

\* the path begins with the start of the request and ends with its end
KeepsEndpoints(path) ==
    /\ path # <<>>
    /\ path[1] = req.start
    /\ path[Len(path)] = req.end

\* the edges of graph.edges from a to b that the solver's adjacency keeps
JoiningEdges(a, b, solver) ==
    {i \in DOMAIN graph.edges :
        /\ graph.edges[i].from = a /\ graph.edges[i].to = b
        /\ IF solver = "genetic"
           THEN ~GeneticEdgeSkipped(graph, graph.edges[i], req.avoid_hazards)
           ELSE ~AnnealEdgeSkipped(graph, graph.edges[i], req.avoid_hazards)}

\* the raw costs of the first joining edge of each of the first n pairs, summed
RECURSIVE RawCostOfPairs(_, _, _)
RawCostOfPairs(path, solver, n) ==
    IF n = 0 THEN 0
    ELSE LET joining == JoiningEdges(path[n], path[n + 1], solver)
             first == CHOOSE i \in joining : \A j \in joining : i <= j
         IN  RawCostOfPairs(path, solver, n - 1) + graph.edges[first].cost

\* C29: for start # end every path of a genetic population, the current path of the
\* annealing loop and every candidate drawn from it begin with start and end with end;
\* a path either solver returns with a finite cost has each consecutive pair joined by an
\* edge its adjacency keeps, and the cost returned is the sum of those edges' raw costs
C29_EndpointsAndEdges ==
    /\ (req.call = "genetic" /\ req.start # req.end) =>
          \A i \in DOMAIN run.population : KeepsEndpoints(run.population[i])
    /\ (/\ req.call = "route" /\ run.pc \in {"loop", "done"}
        /\ req.start # req.end /\ run.loop.initial_path # <<>>) =>
          /\ KeepsEndpoints(run.loop.current_path)
          /\ \A operation \in {"insert", "remove", "swap"} :
                \A drawn \in generate_neighbor_path(run.loop.current_path,
                                                    NodeIds(graph), operation) :
                    drawn.raised = "none" /\ KeepsEndpoints(drawn.path)
    /\ (/\ res.alg \in {"genetic", "annealing"} /\ res.raised = "none"
        /\ res.cost < Inf) =>
          /\ \A n \in 1..(Len(res.path) - 1) :
                JoiningEdges(res.path[n], res.path[n + 1], res.alg) # {}
          /\ res.cost = RawCostOfPairs(res.path, res.alg, Len(res.path) - 1)

\* C29 witness: a genetic solve from 0 to another node has returned a finite cost and
\* its last population holds a child that is none of the initial walks
C29_Witness ==
    /\ req.call = "genetic" /\ req.start # req.end
    /\ run.pc = "done" /\ res.raised = "none" /\ res.cost < Inf
    /\ \E i \in DOMAIN run.population :
          \A j \in DOMAIN run.initial : run.population[i] # run.initial[j]

====
